---- MODULE Spec2Model ----
(***************************************************************************)
(* Model of the real-mode x86 interpreter of tiqwab/x86-emulator           *)
(* (src/emulator.go): the memory buffer, the register file and flags, the  *)
(* instruction decoder, the executor, the INT 21h handler registry and the *)
(* fetch-decode-execute loop of runExeWithCustomIntHandlers.               *)
(*                                                                         *)
(* The memory buffer is zero-initialised and mostly stays zero, so it is   *)
(* kept as the finite map of its non-zero bytes together with memorySize;  *)
(* MemAt gives the byte at an index of the buffer.                         *)
(***************************************************************************)
EXTENDS Integers, Sequences, FiniteSets, TLC

\* 2^16: width of the Go types word and address (both uint16)
W16 == 65536

\* 2^8: width of a byte
W8 == 256

\* paragraphSize (segment << 4)
paragraphSize == 16

(***************************************************************************)
(* Register identities (registerW, registerB, registerS)                   *)
(***************************************************************************)
AX == 0
CX == 1
DX == 2
BX == 3
SP == 4
BP == 5
SI == 6
DI == 7
AL == 0
CL == 1
DL == 2
BL == 3
AH == 4
CH == 5
DH == 6
BH == 7
ES == 0
CS == 1
SS == 2
DS == 3
FS == 4
GS == 5

EFLAGS_ZF == 64
EFLAGS_CF == 1
EFLAGS_DF == 512

(***************************************************************************)
(* Fixed-width arithmetic helpers                                          *)
(***************************************************************************)
\* uint16 wrap-around of a Go word/address expression
Wrap16(x) == x % W16

\* uint8 wrap-around
Wrap8(x) == x % W8

\* value of a byte read as int8 (binary.Read into int8)
\* a byte read as an unsigned value
ToInt8_Unsigned(b) == b

ToInt8(b) == IF b >= 128 THEN b - 256 ELSE b

\* value of a little-endian word read as int16
ToInt16(w) == IF w >= 32768 THEN w - W16 ELSE w

RECURSIVE BitAnd(_, _)
BitAnd(a, b) ==
    IF a = 0 \/ b = 0 THEN 0
    ELSE (IF a % 2 = 1 /\ b % 2 = 1 THEN 1 ELSE 0) + 2 * BitAnd(a \div 2, b \div 2)

RECURSIVE BitXor(_, _)
BitXor(a, b) ==
    IF a = 0 THEN b
    ELSE IF b = 0 THEN a
    ELSE (IF a % 2 = b % 2 THEN 0 ELSE 1) + 2 * BitXor(a \div 2, b \div 2)

\* realAddress: address(seg) << 4 + address(offset), in uint16 arithmetic
realAddress(seg, offset) == Wrap16(seg * paragraphSize + offset)

(***************************************************************************)
(* State variables                                                         *)
(***************************************************************************)
VARIABLES
    pc,                 \* position of runExeWithCustomIntHandlers
    stream,             \* bytes of the reader handed to the entry point
    header,             \* header returned by parseHeaderWithParser
    loadModule,         \* load module returned by parseHeaderWithParser
    customIntHandlers,  \* caller-supplied handler map (input)
    memorySize,         \* memory.memorySize
    mem,                \* memory.loadModule: map of the non-zero bytes
    s,                  \* the interpreter state (registers, flags, exit)
    intHandlers,        \* state.intHandlers: key -> handler
    out,                \* bytes written to the output sink
    ret,                \* value returned by the entry point
    steps,              \* number of loop iterations performed
    hist                \* record of the last loop iterations

vars == <<pc, stream, header, loadModule, customIntHandlers, memorySize, mem, s,
          intHandlers, out, ret, steps, hist>>

(***************************************************************************)
(* MZ header parser                                                        *)
(*                                                                         *)
(* The parser reads the stream front to back; offset is parser.offset, the *)
(* number of bytes consumed so far.  A byte string ([]byte, the bytes of a  *)
(* reader) is its length and the map of its non-zero bytes, indexed from   *)
(* 0 as in the source.                                                     *)
(***************************************************************************)
\* the empty byte string
NoBytes == [len |-> 0, b |-> [a \in {} |-> 0]]

\* the byte string of a sequence of bytes
Bytes(seq) ==
    [len |-> Len(seq),
     b   |-> [a \in {i - 1 : i \in {j \in 1..Len(seq) : seq[j] # 0}} |-> seq[a + 1]]]

\* bs[i]
ByteAt(bs, i) == IF i \in DOMAIN bs.b THEN bs.b[i] ELSE 0

\* bs[from:]
Slice(bs, from) ==
    [len |-> bs.len - from,
     b   |-> [a \in {x - from : x \in {y \in DOMAIN bs.b : y >= from}} |-> bs.b[a + from]]]

\* append(x, y...)
Cat(x, y) ==
    [len |-> x.len + y.len,
     b   |-> [a \in DOMAIN x.b \cup {x.len + c : c \in DOMAIN y.b} |->
                IF a < x.len THEN x.b[a] ELSE y.b[a - x.len]]]

\* header{}: the fields before anything is parsed
NoHeader ==
    [exSignature |-> <<0, 0>>, relocationItems |-> 0, exHeaderSize |-> 0,
     exInitSS |-> 0, exInitSP |-> 0, exInitIP |-> 0, exInitCS |-> 0,
     relocationTableOffset |-> 0]

\* parseBytes that returns bytes when the stream has ended
parseBytesOk_PastEnd(st, offset, n) == TRUE

\* parser.parseBytes(n) at an offset returns bytes (no io.EOF)
parseBytesOk(st, offset, n) == offset + n <= st.len

\* parser.parseWord at an offset: word(buf[1]) << 8 + word(buf[0])
parseWord(st, offset) == Wrap16(ByteAt(st, offset + 1) * W8 + ByteAt(st, offset))

\* parser.parseRemains at an offset: every byte up to the end of the stream
parseRemains(st, offset) == Slice(st, offset)

\* the reads of parseHeaderWithParser in order: offset after the read and the
\* message of the error returned when the stream ends inside it
HeaderReads ==
    << <<2,  "failed to parse bytes at 0-1 of header">>,
       <<6,  "failed to parse bytes at 2-5 of header">>,
       <<8,  "failed to parse bytes at 6-7 of header">>,
       <<10, "failed to parse bytes at 8-9 of header">>,
       <<14, "failed to parse bytes at 10-13 of header">>,
       <<16, "failed to parse bytes at 14-15 of header">>,
       <<18, "failed to parse bytes at 16-17 of header">>,
       <<20, "failed to parse bytes at 18-19 of header">>,
       <<22, "failed to parse bytes at 20-21 of header">>,
       <<24, "failed to parse bytes at 22-23 of header">>,
       <<26, "failed to parse bytes at 24-25 of header">> >>

\* parseHeaderWithParser: [h, lm, err, panic]; panic is the run-time abort of
\* make([]byte, n) in parseBytes when remainHeaderBytes is negative
parseHeaderWithParser(st) ==
    LET Fail(e) == [h |-> NoHeader, lm |-> NoBytes, err |-> e, panic |-> FALSE]
        short   == {i \in 1..Len(HeaderReads) : HeaderReads[i][1] > st.len}
        first   == CHOOSE i \in short : \A j \in short : i <= j
    IN  IF short # {} THEN Fail(HeaderReads[first][2])
        ELSE LET exHeaderSize == parseWord(st, 8)
                 offset == 26
                 remainHeaderBytes == exHeaderSize * paragraphSize - offset
             IN  IF remainHeaderBytes < 0
                 THEN [h |-> NoHeader, lm |-> NoBytes, err |-> "", panic |-> TRUE]
                 ELSE IF ~parseBytesOk(st, offset, remainHeaderBytes)
                 THEN Fail("failed to parse remains of header")
                 ELSE [h |-> [exSignature |-> <<ByteAt(st, 0), ByteAt(st, 1)>>,
                              relocationItems |-> parseWord(st, 6),
                              exHeaderSize |-> exHeaderSize,
                              exInitSS |-> parseWord(st, 14),
                              exInitSP |-> parseWord(st, 16),
                              exInitIP |-> parseWord(st, 20),
                              exInitCS |-> parseWord(st, 22),
                              relocationTableOffset |-> parseWord(st, 24)],
                       lm |-> parseRemains(st, offset + remainHeaderBytes),
                       err |-> "", panic |-> FALSE]

(***************************************************************************)
(* Memory                                                                  *)
(***************************************************************************)
\* the byte at index a of the buffer
MemAt(m, a) == IF a \in DOMAIN m THEN m[a] ELSE 0

\* the buffer after loadModule[a] = b
MemPut(m, a, b) ==
    IF b = 0 THEN [x \in (DOMAIN m) \ {a} |-> m[x]]
    ELSE [x \in (DOMAIN m) \cup {a} |-> IF x = a THEN b ELSE m[x]]

\* newMemoryFromHeader: size of the buffer
newMemorySize(lm, h) == lm.len + realAddress(h.exInitSS, h.exInitSP)

\* newMemoryFromHeader: contents of the buffer (image copied to index 0)
newMemoryFromHeader(lm) == lm.b

\* memory.readBytes bounds check: TRUE when the read of n bytes succeeds
readBytesOk(at, n) == ~(at + (n - 1) >= memorySize)

\* memory.readByte (value when the read succeeds)
readByte(m, at) == MemAt(m, at)

\* memory.readWord (value when the read succeeds): indices int(at)+i
readWord(m, at) == MemAt(m, at + 1) * W8 + MemAt(m, at)

\* memory.readInt8
readInt8(m, at) == ToInt8(MemAt(m, at))

\* memory.readInt16
readInt16(m, at) == ToInt16(readWord(m, at))

\* memory.writeByte: [m, err]
writeByte(m, at, b) ==
    IF at >= memorySize THEN [m |-> m, err |-> "illegal address", panic |-> FALSE]
    ELSE [m |-> MemPut(m, at, b), err |-> "", panic |-> FALSE]

\* memory.writeWord: only the first byte is bounds-checked; the index of the
\* high byte is at+1 in uint16 arithmetic and an index outside the slice is
\* a run-time panic raised after the low byte has been stored
writeWord(m, at, w) ==
    IF at >= memorySize THEN [m |-> m, err |-> "illegal address", panic |-> FALSE]
    ELSE LET low  == w % W8
             high == w \div W8
             m1   == MemPut(m, at, low)
         IN  IF Wrap16(at + 1) >= memorySize
             THEN [m |-> m1, err |-> "", panic |-> TRUE]
             ELSE [m |-> MemPut(m1, Wrap16(at + 1), high), err |-> "", panic |-> FALSE]

(***************************************************************************)
(* Decoder                                                                 *)
(*                                                                         *)
(* An instruction value is a record [t, a, b, c]: t is the Go struct type, *)
(* a, b, c its fields in declaration order (0 when absent).                *)
(***************************************************************************)
Inst(t, a, b, c) == [t |-> t, a |-> a, b |-> b, c |-> c]

NoInst == Inst("nil", 0, 0, 0)

\* a successful return of decodeInstWithMemory (no override)
Decoded(inst, n) == [inst |-> inst, n |-> n, so |-> "", err |-> ""]

\* an error return of decodeInstWithMemory
DecodeErr(e) == [inst |-> NoInst, n |-> -1, so |-> "", err |-> e]

\* toRegisterS: register numbers 0..5 are segment registers
toRegisterSOk(x) == x <= 5

\* decodeModRegRM: split of the ModR/M byte
decodeModRegRM(buf) == [mod |-> buf \div 64, reg |-> (buf \div 8) % 8, rm |-> buf % 8]

\* opcodes 40..5f: one-byte register forms
decodeOneByteReg(op) ==
    IF op < 72 THEN Inst("instInc", op - 64, 0, 0)
    ELSE IF op < 80 THEN Inst("instDec", op - 72, 0, 0)
    ELSE IF op < 88 THEN Inst("instPush", op - 80, 0, 0)
    ELSE Inst("instPop", op - 88, 0, 0)

\* the opcodes followed by a ModR/M byte
ModRMOpcodes == {3, 32, 42, 43, 51, 59, 128, 131, 136, 137, 138, 139, 140, 141, 142, 193, 209}

\* decodeInstWithMemory, the cases with a ModR/M byte; i is initialAddress,
\* the ModR/M byte at i+1 has been read successfully
decodeModRM(op, i, m) ==
    LET a2  == Wrap16(i + 2)
        a3  == Wrap16(i + 3)
        a4  == Wrap16(i + 4)
        f   == decodeModRegRM(readByte(m, Wrap16(i + 1)))
        mod == f.mod
        reg == f.reg
        rm  == f.rm
        \* length of opcode + ModR/M + k more bytes: int(currentAddress - initialAddress)
        n(k) == Wrap16(2 + k)
        NotImpl == DecodeErr("not implemented")
        Bounds  == DecodeErr("illegal address")
        \* mod=00 rm=110: the disp16 form shared by several opcodes
        Disp16(t, r) ==
            IF rm = 6
            THEN IF readBytesOk(a2, 2) THEN Decoded(Inst(t, readWord(m, a2), r, 0), n(2))
                 ELSE Bounds
            ELSE NotImpl
    IN CASE op = 3 ->
              IF mod = 3 THEN Decoded(Inst("instAddReg16Reg16", reg, rm, 0), n(0)) ELSE NotImpl
         [] op = 32 ->
              IF mod = 0 THEN Disp16("instAndMem8Reg8", reg) ELSE NotImpl
         [] op = 42 ->
              IF mod = 3 THEN Decoded(Inst("instSubReg8Reg8", reg, rm, 0), n(0)) ELSE NotImpl
         [] op = 43 ->
              IF mod = 3 THEN Decoded(Inst("instSubReg16Reg16", reg, rm, 0), n(0)) ELSE NotImpl
         [] op = 51 ->
              IF mod = 3 THEN Decoded(Inst("instXorReg16Reg16", reg, rm, 0), n(0)) ELSE NotImpl
         [] op = 59 ->
              IF mod = 3 THEN Decoded(Inst("instCmpReg16Reg16", reg, rm, 0), n(0)) ELSE NotImpl
         [] op = 128 ->
              CASE reg = 4 ->
                     IF mod # 3 THEN NotImpl
                     ELSE IF ~readBytesOk(a2, 1) THEN Bounds
                     ELSE Decoded(Inst("instAndReg8Imm8", rm, readByte(m, a2), 0), n(1))
                [] reg = 7 ->
                     IF mod # 0 \/ rm # 6 THEN NotImpl
                     ELSE IF ~readBytesOk(a2, 2) THEN Bounds
                     ELSE IF ~readBytesOk(a4, 1) THEN Bounds
                     ELSE Decoded(Inst("instCmpMem8Imm8", readWord(m, a2), readInt8(m, a4), 0), n(3))
                [] OTHER -> NotImpl
         [] op = 131 ->
              CASE reg = 0 ->
                     IF mod # 3 THEN NotImpl
                     ELSE IF ~readBytesOk(a2, 1) THEN Bounds
                     ELSE IF rm \in {AX, CX, DX, BX, SP}
                          THEN Decoded(Inst("instAdd", rm, readByte(m, a2), 0), n(1))
                          ELSE NotImpl
                [] reg = 5 ->
                     IF mod # 3 THEN NotImpl
                     ELSE IF ~readBytesOk(a2, 1) THEN Bounds
                     ELSE IF rm \in {AX, DX, CX, SP}
                          THEN Decoded(Inst("instSub", rm, readByte(m, a2), 0), n(1))
                          ELSE NotImpl
                [] reg = 7 ->
                     IF mod # 0 THEN NotImpl
                     ELSE IF ~readBytesOk(a2, 2) THEN Bounds
                     ELSE IF ~readBytesOk(a4, 1) THEN Bounds
                     ELSE Decoded(Inst("instCmpMem16Imm8", readWord(m, a2), readInt8(m, a4), 0), n(3))
                [] OTHER -> NotImpl
         [] op = 136 ->
              IF mod = 0 THEN Disp16("instMovMem8Reg8", reg) ELSE NotImpl
         [] op = 137 ->
              IF mod = 0 THEN Disp16("instMovMem16Reg16", reg) ELSE NotImpl
         [] op = 138 ->
              IF mod = 1
              THEN IF rm = 5
                   THEN IF readBytesOk(a2, 1)
                        THEN Decoded(Inst("instMovReg8MemDisp8", reg, DI, readInt8(m, a2)), n(1))
                        ELSE Bounds
                   ELSE NotImpl
              ELSE NotImpl
         [] op = 139 ->
              IF mod = 3 THEN Decoded(Inst("instMovRegReg", reg, rm, 0), n(0))
              ELSE IF mod = 1
              THEN IF rm = 6
                   THEN IF readBytesOk(a2, 1)
                        THEN Decoded(Inst("instMovRegMemBP", reg, readInt8(m, a2), 0), n(1))
                        ELSE Bounds
                   ELSE NotImpl
              ELSE IF mod = 0
              THEN IF rm = 6
                   THEN IF readBytesOk(a2, 2)
                        THEN Decoded(Inst("instMovReg16Mem16", reg, readWord(m, a2), 0), n(2))
                        ELSE Bounds
                   ELSE NotImpl
              ELSE NotImpl
         [] op = 140 ->
              CASE mod = 0 ->
                     IF ~toRegisterSOk(reg) THEN NotImpl ELSE Disp16("instMovMem16Sreg", reg)
                [] mod = 3 ->
                     IF ~toRegisterSOk(reg) THEN NotImpl
                     ELSE Decoded(Inst("instMovReg16Sreg", rm, reg, 0), n(0))
                [] OTHER -> NotImpl
         [] op = 141 ->
              CASE mod = 0 ->
                     IF rm = 6
                     THEN IF readBytesOk(a2, 2)
                          THEN Decoded(Inst("instLea", reg, readWord(m, a2), 0), n(2))
                          ELSE Bounds
                     ELSE NotImpl
                [] mod = 1 ->
                     \* the error of readInt8 is not looked at: disp8 is 0 then
                     LET disp8 == IF readBytesOk(a2, 1) THEN readInt8(m, a2) ELSE 0
                     IN  IF rm = 5
                         THEN Decoded(Inst("instLeaReg16Disp8", reg, DI, disp8), n(1))
                         ELSE NotImpl
                [] OTHER -> NotImpl
         [] op = 142 ->
              IF mod = 3
              THEN IF toRegisterSOk(reg)
                   THEN Decoded(Inst("instMovSRegReg", reg, rm, 0), n(0))
                   ELSE NotImpl
              ELSE NotImpl
         [] op = 193 ->
              IF mod # 3 \/ reg # 4 THEN NotImpl
              ELSE IF ~readBytesOk(a2, 1) THEN Bounds
              ELSE IF rm \in {AX, CX}
                   THEN Decoded(Inst("instShl", rm, readByte(m, a2), 0), n(1))
                   ELSE NotImpl
         [] op = 209 ->
              IF mod = 3
              THEN CASE reg = 4 -> Decoded(Inst("instShlReg16Imm", rm, 1, 0), n(0))
                     [] reg = 5 -> Decoded(Inst("instShrReg16Imm", rm, 1, 0), n(0))
                     [] OTHER -> NotImpl
              ELSE NotImpl

\* the default case taken as a one-byte instruction without effect
decodeDefault_AsNop(op) == Decoded(Inst("instSti", 0, 0, 0), 1)

\* decodeInstWithMemory, default case of the opcode switch
decodeDefault(op) == DecodeErr("unknown opcode")

\* decodeInstWithMemory, the cases without prefix and without ModR/M byte
decodeSimple(op, i, m) ==
    LET a1 == Wrap16(i + 1)
        Bounds == DecodeErr("illegal address")
        Imm8(t, r) ==
            IF readBytesOk(a1, 1) THEN Decoded(Inst(t, r, readByte(m, a1), 0), 2) ELSE Bounds
        Rel8(t) ==
            IF readBytesOk(a1, 1) THEN Decoded(Inst(t, readInt8(m, a1), 0, 0), 2) ELSE Bounds
        Rel16(t) ==
            IF readBytesOk(a1, 2) THEN Decoded(Inst(t, readInt16(m, a1), 0, 0), Wrap16(3)) ELSE Bounds
    IN CASE op = 60 ->
              IF readBytesOk(a1, 1)
              THEN Decoded(Inst("instCmpReg8Imm8", AL, readInt8(m, a1), 0), 2)
              ELSE Bounds
         [] op \in 64..95 -> Decoded(decodeOneByteReg(op), 1)
         [] op = 114 -> Rel8("instJb")
         [] op = 116 -> Rel8("instJeRel8")
         [] op = 117 -> Rel8("instJneRel8")
         [] op = 161 ->
              IF readBytesOk(a1, 2)
              THEN Decoded(Inst("instMovReg16Mem16", AX, readWord(m, a1), 0), 3)
              ELSE Bounds
         [] op = 162 ->
              IF readBytesOk(a1, 2)
              THEN Decoded(Inst("instMovMem8Reg8", readWord(m, a1), AL, 0), 3)
              ELSE Bounds
         [] op = 163 ->
              IF readBytesOk(a1, 2)
              THEN Decoded(Inst("instMovMem16Reg16", readWord(m, a1), AX, 0), 3)
              ELSE Bounds
         [] op = 170 -> Decoded(Inst("instStosb", 0, 0, 0), 1)
         [] op \in 176..183 -> Imm8("instMovReg8Imm8", op - 176)
         [] op \in 184..191 ->
              IF readBytesOk(a1, 2)
              THEN Decoded(Inst("instMov", op - 184, readWord(m, a1), 0), 3)
              ELSE Bounds
         [] op = 195 -> Decoded(Inst("instRet", 0, 0, 0), 1)
         [] op = 205 ->
              IF readBytesOk(a1, 1)
              THEN Decoded(Inst("instInt", readByte(m, a1), 0, 0), 2)
              ELSE Bounds
         [] op = 232 -> Rel16("instCall")
         [] op = 233 -> Rel16("instJmpRel16")
         [] op = 243 ->
              IF ~readBytesOk(a1, 1) THEN Bounds
              ELSE LET so == readByte(m, a1)
                   IN CASE so = 164 -> Decoded(Inst("instRepMovsb", 0, 0, 0), 2)
                        [] so = 170 -> Decoded(Inst("instRepStosb", 0, 0, 0), 2)
                        [] so = 174 -> Decoded(Inst("instRepeScasb", 0, 0, 0), 2)
                        [] OTHER -> DecodeErr("not implemented")
         [] op = 251 -> Decoded(Inst("instSti", 0, 0, 0), 1)
         [] op = 252 -> Decoded(Inst("instCld", 0, 0, 0), 1)
         [] OTHER -> decodeDefault(op)

\* decodeInstWithMemory(initialAddress, memory): [inst, n, so, err]
RECURSIVE decodeInstWithMemory(_, _)
decodeInstWithMemory(initialAddress, m) ==
    IF ~readBytesOk(initialAddress, 1) THEN DecodeErr("illegal address")
    ELSE LET rawOpcode == readByte(m, initialAddress)
             currentAddress == Wrap16(initialAddress + 1)
         IN  IF rawOpcode = 38
             THEN LET d == decodeInstWithMemory(currentAddress, m)
                  IN  IF d.err # "" THEN DecodeErr(d.err)
                      ELSE [inst |-> d.inst,
                            n |-> d.n + Wrap16(currentAddress - initialAddress),
                            so |-> "ES", err |-> ""]
             ELSE IF rawOpcode \in ModRMOpcodes
             THEN IF readBytesOk(currentAddress, 1)
                  THEN decodeModRM(rawOpcode, initialAddress, m)
                  ELSE DecodeErr("illegal address")
             ELSE decodeSimple(rawOpcode, initialAddress, m)

(***************************************************************************)
(* Register file and flags                                                 *)
(***************************************************************************)
\* field of the state struct holding each registerW
RegWName == <<"ax", "cx", "dx", "bx", "sp", "bp", "si", "di">>

\* state{}: the zero value of the state struct (without the handler map)
ZeroState ==
    [ax |-> 0, cx |-> 0, dx |-> 0, bx |-> 0, sp |-> 0, bp |-> 0, si |-> 0, di |-> 0,
     ss |-> 0, cs |-> 0, ip |-> 0, ds |-> 0, es |-> 0,
     eflags |-> 0, exitCode |-> 0, shouldExit |-> FALSE]

\* newState with the header's CS and IP exchanged
newState_SwapsCSIP(h) ==
    [ZeroState EXCEPT !.sp = h.exInitSP, !.ss = h.exInitSS,
                      !.ip = h.exInitCS, !.cs = h.exInitIP]

\* newState: the registers set from the header
newState(h) ==
    [ZeroState EXCEPT !.sp = h.exInitSP, !.ss = h.exInitSS,
                      !.ip = h.exInitIP, !.cs = h.exInitCS]

\* the registry with the defaults written over the caller's entries
newIntHandlers_DefaultsWin(custom) ==
    [k \in (DOMAIN custom) \cup {48, 74, 76, 9} |->
        CASE k = 48 -> "intHandler30"
          [] k = 74 -> "intHandler4a"
          [] k = 76 -> "intHandler4c"
          [] k = 9  -> "intHandler09"
          [] OTHER  -> custom[k]]

\* newState: the handler registry (caller's entries first, defaults for the
\* keys 0x30, 0x4a, 0x4c, 0x09 the caller left unset)
newIntHandlers(custom) ==
    [k \in (DOMAIN custom) \cup {48, 74, 76, 9} |->
        IF k \in DOMAIN custom THEN custom[k]
        ELSE CASE k = 48 -> "intHandler30"
               [] k = 74 -> "intHandler4a"
               [] k = 76 -> "intHandler4c"
               [] k = 9  -> "intHandler09"]

\* state.al() / state.ah()
al(st) == st.ax % W8
ah(st) == st.ax \div W8

\* state.realIP: address(s.cs << 4 + s.ip) in word arithmetic
realIP(st) == Wrap16(Wrap16(st.cs * paragraphSize) + st.ip)

\* bit tests and updates of the flags word with a one-bit mask
HasBit(x, bit) == (x \div bit) % 2 = 1
isActiveZF(st) == HasBit(st.eflags, EFLAGS_ZF)
isActiveCF(st) == HasBit(st.eflags, EFLAGS_CF)
isActiveDF(st) == HasBit(st.eflags, EFLAGS_DF)
setFlag(st, bit) ==
    [st EXCEPT !.eflags = IF HasBit(@, bit) THEN @ ELSE @ + bit]

\* a flag reset that clears the whole flags word
resetFlag_ClearsAll(st, bit) == [st EXCEPT !.eflags = 0]

resetFlag(st, bit) ==
    [st EXCEPT !.eflags = IF HasBit(@, bit) THEN @ - bit ELSE @]
setZF(st) == setFlag(st, EFLAGS_ZF)
resetZF(st) == resetFlag(st, EFLAGS_ZF)
setCF(st) == setFlag(st, EFLAGS_CF)
resetCF(st) == resetFlag(st, EFLAGS_CF)
resetDF(st) == resetFlag(st, EFLAGS_DF)

\* state.readWordGeneralReg (r in 0..7: never an error)
readWordGeneralReg(st, r) == st[RegWName[r + 1]]

\* state.writeWordGeneralReg
writeWordGeneralReg(st, r, w) == [st EXCEPT ![RegWName[r + 1]] = w]

\* state.readByteGeneralReg
readByteGeneralReg(st, r) ==
    IF r < 4 THEN st[RegWName[r + 1]] % W8 ELSE st[RegWName[r - 3]] \div W8

\* state.writeByteGeneralReg: for AH..BH the new high byte is word(b << 8)
\* with b a uint8, which is always 0
writeByteGeneralReg(st, r, b) ==
    IF r < 4
    THEN [st EXCEPT ![RegWName[r + 1]] = (@ \div W8) * W8 + b]
    ELSE [st EXCEPT ![RegWName[r - 3]] = (@ % W8) + Wrap8(b * W8)]

\* state.readWordSreg: FS and GS are errors
readWordSregOk(r) == r \in {ES, CS, SS, DS}
readWordSreg(st, r) ==
    CASE r = ES -> st.es [] r = CS -> st.cs [] r = SS -> st.ss [] OTHER -> st.ds

(***************************************************************************)
(* Executor.  Every exec operator returns a record                         *)
(*   s      the state value returned                                       *)
(*   m      the memory buffer afterwards                                   *)
(*   err    "" for a nil error                                             *)
(*   panic  a Go run-time panic was raised                                 *)
(*   merr   a memory primitive returned its illegal-address error          *)
(*   o      bytes printed                                                  *)
(*   hang   the call does not return                                       *)
(*   h      the interrupt handler invoked ("" for none)                    *)
(***************************************************************************)
Res(st, m) ==
    [s |-> st, m |-> m, err |-> "", panic |-> FALSE, merr |-> FALSE,
     o |-> <<>>, hang |-> FALSE, h |-> ""]

ResErr(st, m, e) == [Res(st, m) EXCEPT !.err = e]

\* an error that comes from a memory primitive
ResMemErr(st, m) == [Res(st, m) EXCEPT !.err = "illegal address", !.merr = TRUE]

\* result of an exec function whose last memory operation is the write w
ResWrite(st, w) ==
    [Res(st, w.m) EXCEPT !.err = w.err, !.panic = w.panic, !.merr = (w.err # "")]

\* state.pushWord
pushWord(st, w, m) ==
    LET s1 == [st EXCEPT !.sp = Wrap16(@ - 2)]
    IN  ResWrite(s1, writeWord(m, realAddress(s1.ss, s1.sp), w))

\* state.popWord: [w, s, err]
popWord(st, m) ==
    LET at == realAddress(st.ss, st.sp)
    IN  IF readBytesOk(at, 2)
        THEN [w |-> readWord(m, at), s |-> [st EXCEPT !.sp = Wrap16(@ + 2)], err |-> ""]
        ELSE [w |-> 0, s |-> st, err |-> "illegal address"]

execMov(inst, st, m) == Res(writeWordGeneralReg(st, inst.a, inst.b), m)

execMovReg8Imm8(inst, st, m) ==
    Res(IF inst.a < 4
        THEN [st EXCEPT ![RegWName[inst.a + 1]] = Wrap16(inst.b + (@ \div W8) * W8)]
        ELSE [st EXCEPT ![RegWName[inst.a - 3]] = Wrap16(inst.b * W8 + (@ % W8))], m)

execMovRegReg(inst, st, m) ==
    Res(writeWordGeneralReg(st, inst.a, readWordGeneralReg(st, inst.b)), m)

execMovSRegReg(inst, st, m) ==
    LET v == readWordGeneralReg(st, inst.b)
    IN  CASE inst.a = ES -> Res([st EXCEPT !.es = v], m)
          [] inst.a = SS -> Res([st EXCEPT !.ss = v], m)
          [] inst.a = DS -> Res([st EXCEPT !.ds = v], m)
          [] OTHER -> ResErr(st, m, "unknown register")

execMovRegMemBP(inst, st, m) ==
    LET at == Wrap16(realAddress(st.ss, st.bp) + inst.b)
    IN  IF readBytesOk(at, 2)
        THEN Res(writeWordGeneralReg(st, inst.a, readWord(m, at)), m)
        ELSE ResMemErr(st, m)

execMovReg8MemDisp8(inst, st, m) ==
    LET at == Wrap16(realAddress(st.ds, readWordGeneralReg(st, inst.b)) + inst.c)
    IN  IF readBytesOk(at, 1)
        THEN Res(writeByteGeneralReg(st, inst.a, readByte(m, at)), m)
        ELSE ResMemErr(st, m)

\* x << n for a word x and a uint8 count n
ShlWord(x, n) == IF n >= 16 THEN 0 ELSE Wrap16(x * (2 ^ n))

execShl(inst, st, m) ==
    IF inst.a \in {AX, CX, DX, BX}
    THEN Res(writeWordGeneralReg(st, inst.a, ShlWord(readWordGeneralReg(st, inst.a), inst.b)), m)
    ELSE ResErr(st, m, "unknown register")

execAdd(inst, st, m) ==
    IF inst.a \in {AX, CX, DX, BX, SP}
    THEN Res(writeWordGeneralReg(st, inst.a, Wrap16(readWordGeneralReg(st, inst.a) + inst.b)), m)
    ELSE ResErr(st, m, "unknown register")

execSub(inst, st, m) ==
    IF inst.a \in {AX, DX, CX, SP}
    THEN Res(writeWordGeneralReg(st, inst.a, Wrap16(readWordGeneralReg(st, inst.a) - inst.b)), m)
    ELSE ResErr(st, m, "unknown register")

execLea(inst, st, m) ==
    IF inst.a \in {AX, CX, DX}
    THEN Res(writeWordGeneralReg(st, inst.a, inst.b), m)
    ELSE ResErr(st, m, "unknown register")

execInstLeaReg16Disp8(inst, st, m) ==
    LET vBase  == readWordGeneralReg(st, inst.b)
        leaVal == Wrap16(realAddress(st.ds, vBase) + inst.c)
    IN  Res(writeWordGeneralReg(st, inst.a, leaVal), m)

(***************************************************************************)
(* INT 21h handlers                                                        *)
(***************************************************************************)
\* intHandler30, intHandler4a: do nothing
intHandlerNop(st, m) == Res(st, m)

\* intHandler4c without the termination request
intHandler4c_NoExit(st, m) ==
    Res([st EXCEPT !.exitCode = al(st)], m)

\* intHandler4c
intHandler4c(st, m) ==
    Res([st EXCEPT !.exitCode = al(st), !.shouldExit = TRUE], m)

\* intHandler09: scan from DS:DX with a uint16 address (startAddress++ wraps)
\* until a '$' byte is read or readByte fails
intHandler09(st, m) ==
    LET start   == realAddress(st.ds, st.dx)
        dollars == {a \in DOMAIN m : a < W16 /\ m[a] = 36}
        dist(a) == Wrap16(a - start)
        canFail == memorySize < W16
        errDist == IF start >= memorySize THEN 0 ELSE memorySize - start
        first   == CHOOSE a \in dollars : \A b \in dollars : dist(a) <= dist(b)
        found   == dollars # {} /\ (canFail => dist(first) < errDist)
    IN  IF found
        THEN [Res(st, m) EXCEPT
                !.o = [k \in 1..dist(first) |-> MemAt(m, Wrap16(start + k - 1))]]
        ELSE IF canFail THEN ResMemErr(st, m)
        ELSE [Res(st, m) EXCEPT !.hang = TRUE]

\* a caller-supplied handler (test double): returns nil, changes nothing
customHandler(st, m) == Res(st, m)

\* a caller-supplied handler that sets DF in the state it is handed
customSetDF(st, m) == Res(setFlag(st, EFLAGS_DF), m)

\* call of the handler registered under a name
callHandler(name, st, m) ==
    CASE name = "intHandler4c" -> intHandler4c(st, m)
      [] name = "intHandler09" -> intHandler09(st, m)
      [] name = "custom"       -> customHandler(st, m)
      [] name = "customSetDF"  -> customSetDF(st, m)
      [] OTHER                 -> intHandlerNop(st, m)

\* execInt taking every vector as 0x21 and an AH without handler as a no-op
execInt_Lenient(inst, st, m) ==
    IF ah(st) \in DOMAIN intHandlers
    THEN [callHandler(intHandlers[ah(st)], st, m) EXCEPT !.h = intHandlers[ah(st)]]
    ELSE Res(st, m)

execInt(inst, st, m) ==
    IF inst.a = 33
    THEN IF ah(st) \in DOMAIN intHandlers
         THEN [callHandler(intHandlers[ah(st)], st, m) EXCEPT !.h = intHandlers[ah(st)]]
         ELSE ResErr(st, m, "int 21 with unknown value of ax")
    ELSE ResErr(st, m, "unknown operand")

(***************************************************************************)
(* Stack and control flow                                                  *)
(***************************************************************************)
execPush(inst, st, m) == pushWord(st, readWordGeneralReg(st, inst.a), m)

\* execPop: the error of popWord is overwritten by the one of
\* writeWordGeneralReg, which is nil
execPop(inst, st, m) ==
    LET p == popWord(st, m)
    IN  [Res(writeWordGeneralReg(p.s, inst.a, p.w), m) EXCEPT !.merr = (p.err # "")]

execCall(inst, st, m) ==
    LET r == pushWord(st, st.ip, m)
    IN  IF r.err # "" \/ r.panic THEN r
        ELSE [r EXCEPT !.s.ip = Wrap16(st.ip + inst.a)]

execRet(inst, st, m) ==
    LET p == popWord(st, m)
    IN  IF p.err # "" THEN ResMemErr(p.s, m)
        ELSE Res([p.s EXCEPT !.ip = p.w], m)

execJmpRel16(inst, st, m) == Res([st EXCEPT !.ip = Wrap16(@ + inst.a)], m)

execSti(inst, st, m) == Res(st, m)

\* jb / je / jne rel8: taken is the value of the guard
execJcc(taken, rel8, st, m) ==
    Res(IF taken THEN [st EXCEPT !.ip = Wrap16(@ + rel8)] ELSE st, m)

execInstJneRel8(inst, st, m) == execJcc(~isActiveZF(st), inst.a, st, m)
execInstJeRel8(inst, st, m) == execJcc(isActiveZF(st), inst.a, st, m)
execInstJb(inst, st, m) == execJcc(isActiveCF(st), inst.a, st, m)

(***************************************************************************)
(* Data movement and arithmetic                                            *)
(***************************************************************************)
execAndReg8Imm8(inst, st, m) ==
    IF inst.a \in {AL, CL, DL, BL}
    THEN Res([st EXCEPT ![RegWName[inst.a + 1]] = BitAnd(@, 65280 + inst.b)], m)
    ELSE ResErr(st, m, "unknown register")

\* execAndMem8Reg8: the result is written to the register
execAndMem8Reg8(inst, st, m) ==
    LET at == realAddress(st.ds, inst.a)
    IN  IF readBytesOk(at, 1)
        THEN Res(writeByteGeneralReg(st, inst.b,
                    BitAnd(readByteGeneralReg(st, inst.b), readByte(m, at))), m)
        ELSE ResMemErr(st, m)

\* the state with DS replaced by ES while an override is active
overrideDS(st, so) == IF so = "ES" THEN [st EXCEPT !.ds = st.es] ELSE st

\* execMovMem16Reg16 without the restore of DS after the write
execMovMem16Reg16_KeepsES(inst, st, m, so) ==
    LET s1 == overrideDS(st, so)
        w  == writeWord(m, realAddress(s1.ds, inst.a), readWordGeneralReg(s1, inst.b))
    IN  IF w.err # "" \/ w.panic THEN ResWrite(s1, w)
        ELSE Res(s1, w.m)

execMovMem16Reg16(inst, st, m, so) ==
    LET s1 == overrideDS(st, so)
        w  == writeWord(m, realAddress(s1.ds, inst.a), readWordGeneralReg(s1, inst.b))
    IN  IF w.err # "" \/ w.panic THEN ResWrite(s1, w)
        ELSE Res([s1 EXCEPT !.ds = st.ds], w.m)

execMovMem8Reg8(inst, st, m, so) ==
    LET s1 == overrideDS(st, so)
        w  == writeByte(m, realAddress(s1.ds, inst.a), readByteGeneralReg(s1, inst.b))
    IN  IF w.err # "" THEN ResWrite(s1, w)
        ELSE Res([s1 EXCEPT !.ds = st.ds], w.m)

execMovReg16Mem16(inst, st, m, so) ==
    LET s1 == overrideDS(st, so)
        at == realAddress(s1.ds, inst.b)
    IN  IF readBytesOk(at, 2)
        THEN Res([writeWordGeneralReg(s1, inst.a, readWord(m, at)) EXCEPT !.ds = st.ds], m)
        ELSE ResMemErr(s1, m)

execMovMem16Sreg(inst, st, m, so) ==
    LET s1 == overrideDS(st, so)
    IN  IF ~readWordSregOk(inst.b) THEN ResErr(s1, m, "illegal number for registerS")
        ELSE LET w == writeWord(m, realAddress(s1.ds, inst.a), readWordSreg(s1, inst.b))
             IN  IF w.err # "" \/ w.panic THEN ResWrite(s1, w)
                 ELSE Res([s1 EXCEPT !.ds = st.ds], w.m)

execAddReg16Reg16(inst, st, m) ==
    Res(writeWordGeneralReg(st, inst.a,
            Wrap16(readWordGeneralReg(st, inst.b) + readWordGeneralReg(st, inst.a))), m)

execShrReg16Imm(inst, st, m) ==
    Res(writeWordGeneralReg(st, inst.a, readWordGeneralReg(st, inst.a) \div 2), m)

execShlReg16Imm(inst, st, m) ==
    Res(writeWordGeneralReg(st, inst.a, Wrap16(readWordGeneralReg(st, inst.a) * 2)), m)

\* the flag updates shared by the cmp forms: v and w are the two operands
\* as the Go code compares them
cmpFlags(st, v, w) ==
    IF v = w THEN resetCF(setZF(st))
    ELSE IF v < w THEN setCF(resetZF(st))
    ELSE resetCF(resetZF(st))

\* operands are int8 values
execInstCmpMem8Imm8(inst, st, m, so) ==
    LET s1 == overrideDS(st, so)
        at == realAddress(s1.ds, inst.a)
    IN  IF readBytesOk(at, 1)
        THEN Res([cmpFlags(s1, readInt8(m, at), inst.b) EXCEPT !.ds = st.ds], m)
        ELSE ResMemErr(s1, m)

\* operands are int16 values; the override is not passed to this function
execInstCmpMem16Imm8(inst, st, m) ==
    LET at == realAddress(st.ds, inst.a)
    IN  IF readBytesOk(at, 2)
        THEN Res(cmpFlags(st, readInt16(m, at), inst.b), m)
        ELSE ResMemErr(st, m)

\* operands are uint8 values
execInstCmpReg8Imm8(inst, st, m) ==
    Res(cmpFlags(st, readByteGeneralReg(st, inst.a), Wrap8(inst.b)), m)

execInstCmpReg16Reg16(inst, st, m) ==
    Res(cmpFlags(st, readWordGeneralReg(st, inst.a), readWordGeneralReg(st, inst.b)), m)

execInstMovReg16Sreg(inst, st, m) ==
    IF readWordSregOk(inst.b)
    THEN Res(writeWordGeneralReg(st, inst.a, readWordSreg(st, inst.b)), m)
    ELSE ResErr(st, m, "failed in execInstMovReg16Sreg")

execInstSubReg16Reg16(inst, st, m) ==
    Res(writeWordGeneralReg(st, inst.a,
            Wrap16(readWordGeneralReg(st, inst.a) - readWordGeneralReg(st, inst.b))), m)

execInstSubReg8Reg8(inst, st, m) ==
    Res(writeByteGeneralReg(st, inst.a,
            Wrap8(readByteGeneralReg(st, inst.a) - readByteGeneralReg(st, inst.b))), m)

\* cld setting the direction flag
execInstCld_SetsDF(inst, st, m) == Res(setFlag(st, EFLAGS_DF), m)

execInstCld(inst, st, m) == Res(resetDF(st), m)

execInstInc(inst, st, m) ==
    Res(writeWordGeneralReg(st, inst.a, Wrap16(readWordGeneralReg(st, inst.a) + 1)), m)

execInstDec(inst, st, m) ==
    Res(writeWordGeneralReg(st, inst.a, Wrap16(readWordGeneralReg(st, inst.a) - 1)), m)

execInstXorReg16Reg16(inst, st, m) ==
    Res(writeWordGeneralReg(st, inst.a,
            BitXor(readWordGeneralReg(st, inst.a), readWordGeneralReg(st, inst.b))), m)

(***************************************************************************)
(* String operations                                                       *)
(***************************************************************************)
\* +1 when DF = 0, -1 when DF = 1
stringDelta(st) == IF ~isActiveDF(st) THEN 1 ELSE -1

execScasb(st, m) ==
    LET at == realAddress(st.es, st.di)
    IN  IF ~readBytesOk(at, 1) THEN ResMemErr(st, m)
        ELSE LET s1 == IF al(st) = readByte(m, at) THEN setZF(st) ELSE resetZF(st)
             IN  Res([s1 EXCEPT !.di = Wrap16(st.di + stringDelta(s1))], m)

execMovsb(st, m) ==
    LET src == realAddress(st.ds, st.si)
    IN  IF ~readBytesOk(src, 1) THEN ResMemErr(st, m)
        ELSE LET w == writeByte(m, realAddress(st.es, st.di), readByte(m, src))
             IN  IF w.err # "" THEN ResWrite(st, w)
                 ELSE Res([st EXCEPT !.si = Wrap16(@ + stringDelta(st)),
                                     !.di = Wrap16(@ + stringDelta(st))], w.m)

execStosb(st, m) ==
    LET w == writeByte(m, realAddress(st.es, st.di), al(st))
    IN  IF w.err # "" THEN ResWrite(st, w)
        ELSE Res([st EXCEPT !.di = Wrap16(@ + stringDelta(st))], w.m)

\* one step of the string primitive of a rep-prefixed instruction
stringStep(t, st, m) ==
    CASE t = "instRepeScasb" -> execScasb(st, m)
      [] t = "instRepMovsb"  -> execMovsb(st, m)
      [] OTHER               -> execStosb(st, m)

\* the loop of execInstRepeScasb / execInstRepMovsb / execInstRepStosb:
\* count is the local counter, CX is written after the loop
RECURSIVE repLoop(_, _, _, _)
repLoop(t, st, m, count) ==
    IF count > 0 /\ (t = "instRepeScasb" => isActiveZF(st))
    THEN LET r == stringStep(t, st, m)
         IN  IF r.err # "" THEN r ELSE repLoop(t, r.s, r.m, count - 1)
    ELSE Res([st EXCEPT !.cx = count], m)

\* the rep loop entered with a count of CX+1
execInstRep_ExtraStep(inst, st, m) == repLoop(inst.t, st, m, st.cx + 1)

execInstRep(inst, st, m) == repLoop(inst.t, st, m, st.cx)

execInstStosb(inst, st, m) == execStosb(st, m)

(***************************************************************************)
(* execute: dispatch on the instruction type                               *)
(***************************************************************************)
execute(inst, st, m, so) ==
    CASE inst.t = "instMov"             -> execMov(inst, st, m)
      [] inst.t = "instMovReg8Imm8"     -> execMovReg8Imm8(inst, st, m)
      [] inst.t = "instMovRegReg"       -> execMovRegReg(inst, st, m)
      [] inst.t = "instMovSRegReg"      -> execMovSRegReg(inst, st, m)
      [] inst.t = "instMovRegMemBP"     -> execMovRegMemBP(inst, st, m)
      [] inst.t = "instMovReg8MemDisp8" -> execMovReg8MemDisp8(inst, st, m)
      [] inst.t = "instShl"             -> execShl(inst, st, m)
      [] inst.t = "instAdd"             -> execAdd(inst, st, m)
      [] inst.t = "instSub"             -> execSub(inst, st, m)
      [] inst.t = "instLea"             -> execLea(inst, st, m)
      [] inst.t = "instLeaReg16Disp8"   -> execInstLeaReg16Disp8(inst, st, m)
      [] inst.t = "instInt"             -> execInt(inst, st, m)
      [] inst.t = "instPush"            -> execPush(inst, st, m)
      [] inst.t = "instPop"             -> execPop(inst, st, m)
      [] inst.t = "instCall"            -> execCall(inst, st, m)
      [] inst.t = "instRet"             -> execRet(inst, st, m)
      [] inst.t = "instJmpRel16"        -> execJmpRel16(inst, st, m)
      [] inst.t = "instSti"             -> execSti(inst, st, m)
      [] inst.t = "instAndReg8Imm8"     -> execAndReg8Imm8(inst, st, m)
      [] inst.t = "instAndMem8Reg8"     -> execAndMem8Reg8(inst, st, m)
      [] inst.t = "instMovMem16Reg16"   -> execMovMem16Reg16(inst, st, m, so)
      [] inst.t = "instMovMem8Reg8"     -> execMovMem8Reg8(inst, st, m, so)
      [] inst.t = "instMovReg16Mem16"   -> execMovReg16Mem16(inst, st, m, so)
      [] inst.t = "instMovMem16Sreg"    -> execMovMem16Sreg(inst, st, m, so)
      [] inst.t = "instAddReg16Reg16"   -> execAddReg16Reg16(inst, st, m)
      [] inst.t = "instShrReg16Imm"     -> execShrReg16Imm(inst, st, m)
      [] inst.t = "instShlReg16Imm"     -> execShlReg16Imm(inst, st, m)
      [] inst.t = "instCmpMem8Imm8"     -> execInstCmpMem8Imm8(inst, st, m, so)
      [] inst.t = "instCmpMem16Imm8"    -> execInstCmpMem16Imm8(inst, st, m)
      [] inst.t = "instCmpReg8Imm8"     -> execInstCmpReg8Imm8(inst, st, m)
      [] inst.t = "instCmpReg16Reg16"   -> execInstCmpReg16Reg16(inst, st, m)
      [] inst.t = "instJneRel8"         -> execInstJneRel8(inst, st, m)
      [] inst.t = "instMovReg16Sreg"    -> execInstMovReg16Sreg(inst, st, m)
      [] inst.t = "instSubReg16Reg16"   -> execInstSubReg16Reg16(inst, st, m)
      [] inst.t = "instSubReg8Reg8"     -> execInstSubReg8Reg8(inst, st, m)
      [] inst.t = "instJb"              -> execInstJb(inst, st, m)
      [] inst.t = "instCld"             -> execInstCld(inst, st, m)
      [] inst.t \in {"instRepeScasb", "instRepMovsb", "instRepStosb"}
                                        -> execInstRep(inst, st, m)
      [] inst.t = "instJeRel8"          -> execInstJeRel8(inst, st, m)
      [] inst.t = "instInc"             -> execInstInc(inst, st, m)
      [] inst.t = "instStosb"           -> execInstStosb(inst, st, m)
      [] inst.t = "instDec"             -> execInstDec(inst, st, m)
      [] inst.t = "instXorReg16Reg16"   -> execInstXorReg16Reg16(inst, st, m)
      [] OTHER                          -> ResErr(st, m, "unknown inst")

(***************************************************************************)
(* Inputs: header fields, load module and caller-supplied handlers         *)
(***************************************************************************)
\* bound on the number of loop iterations of one run
MaxSteps == 14

\* number of loop iterations remembered in hist
HistLen == 4

\* a header with the signature MZ and a header size of 2 paragraphs
Hdr(ss, sp, ip, cs) ==
    [exSignature |-> <<77, 90>>, relocationItems |-> 0, exHeaderSize |-> 2,
     exInitSS |-> ss, exInitSP |-> sp, exInitIP |-> ip, exInitCS |-> cs,
     relocationTableOffset |-> 0]

\* the header of the repository's tests: SS=1, SP=0x1000, CS:IP=0:0
HStd == Hdr(1, 4096, 0, 0)

\* no stack extent: the buffer is exactly the load module
HTight == Hdr(0, 0, 0, 0)

\* a small stack extent
HSmall == Hdr(0, 32, 0, 0)

\* stack extent 0xFFFF: the buffer is larger than 64 KiB
HBig == Hdr(4095, 15, 0, 0)

Lo(w) == w % W8
Hi(w) == w \div W8

\* instruction encodings
MovR16(r, w) == <<184 + r, Lo(w), Hi(w)>>
MovR8(r, b) == <<176 + r, b>>
MovSregR(sr, r) == <<142, 192 + sr * 8 + r>>
PushR(r) == <<80 + r>>
PopR(r) == <<88 + r>>
IncR(r) == <<64 + r>>
IntN(n) == <<205, n>>
Exit(code) == MovR16(AX, 19456 + code) \o IntN(33)
CallRel(rel) == <<232, Lo(Wrap16(rel)), Hi(Wrap16(rel))>>
JmpRel(rel) == <<233, Lo(Wrap16(rel)), Hi(Wrap16(rel))>>
Ret == <<195>>
Sti == <<251>>
CmpR16(r1, r2) == <<59, 192 + r1 * 8 + r2>>
CmpAL(imm) == <<60, imm>>
CmpM8(disp, imm) == <<128, 62, Lo(disp), Hi(disp), imm>>
CmpM16(disp, imm) == <<131, 62, Lo(disp), Hi(disp), imm>>
MovM16R(disp, r) == <<137, r * 8 + 6, Lo(disp), Hi(disp)>>
MovM8R(disp, r) == <<136, r * 8 + 6, Lo(disp), Hi(disp)>>
MovRM16(r, disp) == <<139, r * 8 + 6, Lo(disp), Hi(disp)>>
EsPrefix == <<38>>
RepMovsb == <<243, 164>>
RepStosb == <<243, 170>>
RepeScasb == <<243, 174>>
Stosb == <<170>>
Cld == <<252>>

\* n zero bytes of padding
Zeros(n) == [i \in 1..n |-> 0]

\* a 16-bit value as two bytes, low byte first
WordBytes(w) == <<Lo(w), Hi(w)>>

\* the first 26 bytes of the file of a header (bytes the parser skips are 0)
HeaderBytes(h) ==
    h.exSignature \o Zeros(4) \o WordBytes(h.relocationItems)
    \o WordBytes(h.exHeaderSize) \o Zeros(4) \o WordBytes(h.exInitSS)
    \o WordBytes(h.exInitSP) \o Zeros(2) \o WordBytes(h.exInitIP)
    \o WordBytes(h.exInitCS) \o WordBytes(h.relocationTableOffset)

\* the executable file of a header and a load module
Image(h, lm) ==
    HeaderBytes(h) \o Zeros(h.exHeaderSize * paragraphSize - 26) \o lm

\* no caller-supplied handler (RunExe)
NoCustom == [k \in {} |-> "custom"]

Input(h, lm) == [raw |-> Bytes(Image(h, lm)), custom |-> NoCustom]

\* an input with caller-supplied handlers
InputWith(h, lm, custom) == [raw |-> Bytes(Image(h, lm)), custom |-> custom]

\* values loaded into AX, CX, DX, BX, BP, SI, DI before a stack test
RegSetup ==
    MovR16(AX, 4149) \o MovR16(CX, 8246) \o MovR16(DX, 770) \o MovR16(BX, 2826)
    \o MovR16(BP, 1285) \o MovR16(SI, 1542) \o MovR16(DI, 1799)

\* exit codes tried
ExitCodes == {0, 1, 7, 255}

\* termination through INT 21h, followed by an instruction never reached
\* int n for several vectors and AH values, without and with a caller's
\* handler map
IntInputs ==
    {InputWith(HStd, IncR(BX) \o MovR8(AH, a) \o IntN(n) \o IncR(BX) \o Exit(1), c) :
        a \in {0, 9, 75, 76, 77, 85, 86}, n \in {0, 32, 33, 34, 255},
        c \in {NoCustom, [k \in {85} |-> "custom"], [k \in {9, 48} |-> "custom"]}}

ExitInputs ==
    {Input(HStd, MovR16(AX, ahv * W8 + code) \o IntN(33) \o IncR(BX) \o Exit(code)) :
        ahv \in {76, 48, 74}, code \in ExitCodes}
    \cup {InputWith(HStd, Exit(code) \o IncR(BX), [k \in {k0} |-> "custom"]) :
        code \in {7}, k0 \in {9, 76}}
    \cup {Input(HStd, MovR16(AX, 19456 + 3) \o MovR16(CX, 5) \o PushR(CX) \o IntN(33))}

\* stack pointers a stack test starts from, for a load module of len bytes:
\* the loaded SP, and values that put the next pushed word at the last two
\* bytes of the buffer, across its end, past its end, and (64 KiB buffer)
\* at linear address 0xFFFF and 0x10000
SPChoices(h, len) ==
    IF h = HBig THEN {15, 17, 18}
    ELSE IF h.exInitSS # 0 THEN {h.exInitSP}
    ELSE {h.exInitSP, len + h.exInitSP, len + h.exInitSP + 1, len + h.exInitSP + 2}

StackHeaders == {HStd, HSmall, HBig, HTight}

\* the inputs pre; mov sp, v; post for the stack pointers v of SPChoices
WithSP(h, pre, post) ==
    {Input(h, pre \o MovR16(SP, v) \o post) :
        v \in SPChoices(h, Len(pre) + 3 + Len(post))}

\* push r; pop r'
PushPopInputs ==
    UNION {WithSP(h, RegSetup, PushR(r1) \o PopR(r2) \o Exit(0)) :
            h \in StackHeaders, r1 \in 0..7, r2 \in 0..7}

\* push; push; pop; pop
LifoInputs ==
    UNION {WithSP(h, MovR16(AX, 4149) \o MovR16(CX, 8246),
                  PushR(r[1]) \o PushR(r[2]) \o PopR(r[3]) \o PopR(r[4]) \o Exit(0)) :
            h \in StackHeaders,
            r \in {AX, SP} \X {CX, AX} \X {BX, SP, CX} \X {DX, BX}}

\* a lone pop, ret, push or call on each stack pointer
StackErrorInputs ==
    UNION {WithSP(h, MovR16(BX, 4660), op \o Exit(0)) :
            h \in StackHeaders, op \in {PopR(BX), Ret, PushR(BX), CallRel(0)}}

\* call rel16 to a routine behind the exit sequence, the routine using the
\* stack in a balanced way, and a call backwards (entry point at offset 4)
CallInputs ==
    UNION {WithSP(h, pfx, CallRel(5) \o Exit(7) \o body \o Ret) :
            h \in StackHeaders,
            pfx \in {<<>>, Sti},
            body \in {<<>>, PushR(AX) \o PopR(CX), PushR(SP) \o IncR(DX) \o PopR(BX)}}
    \cup {Input(Hdr(1, 4096, 4, 0), Sti \o Sti \o Sti \o Ret \o CallRel(-4) \o Exit(1))}
    \cup {Input(HStd, EsPrefix \o CallRel(5) \o Exit(2) \o Ret)}
    \cup {Input(HStd, CallRel(5) \o Exit(3) \o PopR(DX) \o Exit(4))}
    \cup {Input(HBig, JmpRel(256) \o Zeros(256) \o MovR16(SP, v)
                       \o CallRel(5) \o Exit(7) \o Ret) : v \in {15, 17}}

\* operand values for the cmp forms
CmpWords == {0, 1, 32767, 32768, 65535}
CmpBytes == {0, 1, 127, 128, 255}

\* an earlier cmp that leaves CF=1, ZF=1 or neither
CmpPreludes == {<<>>, CmpAL(1), CmpAL(0)}

CmpInputs ==
    {Input(HStd, pre \o MovR16(AX, a) \o MovR16(CX, b) \o CmpR16(r[1], r[2]) \o Exit(0)) :
        pre \in CmpPreludes, a \in CmpWords, b \in CmpWords,
        r \in {<<AX, CX>>, <<CX, AX>>, <<AX, AX>>}}
    \cup {Input(HStd, pre \o MovR8(AL, a) \o CmpAL(b) \o Exit(0)) :
        pre \in CmpPreludes, a \in CmpBytes, b \in CmpBytes}
    \cup {Input(HStd, pre \o CmpM8(Len(pre) + 10, b) \o Exit(0) \o <<a>>) :
        pre \in CmpPreludes, a \in CmpBytes, b \in CmpBytes}
    \cup {Input(HStd, pre \o CmpM16(Len(pre) + 10, b) \o Exit(0) \o <<Lo(a), Hi(a)>>) :
        pre \in CmpPreludes, a \in CmpWords \cup {65408, 128, 255}, b \in CmpBytes}

\* segment values loaded into ES and DS for the override tests
SegValues == {0, 1, 16, 4096}

\* ES: mov [0x38], bx followed by an unprefixed mov [0x3a], cx
OverrideInputs ==
    {Input(HStd, MovR16(AX, e) \o MovSregR(ES, AX) \o MovR16(AX, d) \o MovSregR(DS, AX)
                 \o MovR16(BX, 4660) \o MovR16(CX, 22136)
                 \o pfx \o MovM16R(56, BX) \o nxt \o Exit(0)) :
        e \in SegValues, d \in SegValues,
        pfx \in {<<>>, EsPrefix, EsPrefix \o EsPrefix},
        nxt \in {MovM16R(58, CX), MovRM16(DX, 56), EsPrefix \o MovRM16(DX, 56), Sti}}
    \cup {Input(HStd, MovR16(AX, e) \o MovSregR(ES, AX) \o MovR16(CX, 22136)
                 \o EsPrefix \o first \o MovM16R(58, CX) \o Exit(0)) :
        e \in SegValues, first \in {Sti, IncR(BX), MovM8R(56, CL), CmpM8(56, 1)}}
    \cup {Input(HBig, MovR16(AX, 4096) \o MovSregR(ES, AX) \o MovR16(BX, 4660)
                       \o EsPrefix \o MovM16R(56, BX) \o Exit(0) \o Zeros(48))}

\* the memory-operand instructions tried at the end of the buffer
BoundsOp(k, a) ==
    CASE k = 1 -> MovM16R(a, AX)
      [] k = 2 -> MovM8R(a, AL)
      [] k = 3 -> MovRM16(DX, a)
      [] k = 4 -> CmpM8(a, 0)
      [] OTHER -> CmpM16(a, 0)

\* word and byte accesses d bytes before the end of the buffer
BoundsInputs ==
    {Input(h, MovR16(AX, 4660)
              \o BoundsOp(k, 3 + Len(BoundsOp(k, 0)) + 5 + h.exInitSP - d) \o Exit(0)) :
        h \in {HSmall, HTight}, k \in 1..5, d \in 0..3}
    \cup {Input(HBig, MovR16(AX, 4660) \o op \o Exit(0)) :
            op \in {MovM16R(65535, AX), MovM16R(65534, AX), MovRM16(DX, 65535)}}

\* runs that end without INT 21h/4Ch: end of the buffer, unknown opcode,
\* unsupported interrupt, missing operand bytes
ErrorInputs ==
    {Input(h, lm) :
        h \in {HTight, HSmall},
        lm \in {Sti, IncR(AX) \o IncR(CX), <<144>>, IncR(AX) \o <<0>>, IntN(32),
                MovR8(AH, 85) \o IntN(33), Sti \o <<184, 1>>, Sti \o <<205>>,
                IncR(BX) \o <<137>>, IncR(BX) \o EsPrefix, <<141, 69>>,
                <<140, 240>>, <<142, 200>>, <<193, 226, 1>>, <<243, 175>>}}

\* one well-formed encoding of every operand layout: immediates, relative
\* displacements, ModR/M with disp16, with disp8, with an immediate, prefixes
WellFormed ==
    {<<184, 1, 2>>, <<176, 1>>, <<60, 1>>, <<114, 1>>, <<116, 1>>, <<117, 1>>,
     <<205, 33>>, <<232, 1, 0>>, <<233, 1, 0>>, <<161, 1, 0>>, <<162, 1, 0>>,
     <<163, 1, 0>>, <<139, 30, 1, 0>>, <<139, 70, 1>>, <<138, 69, 1>>,
     <<141, 30, 1, 0>>, <<141, 93, 1>>, <<131, 192, 1>>, <<131, 232, 1>>,
     <<131, 62, 1, 0, 1>>, <<128, 62, 1, 0, 1>>, <<128, 228, 1>>,
     <<32, 30, 1, 0>>, <<137, 30, 1, 0>>, <<136, 30, 1, 0>>, <<140, 30, 1, 0>>,
     <<142, 216>>, <<193, 224, 1>>, <<209, 224>>, <<3, 195>>, <<42, 195>>,
     <<43, 195>>, <<51, 195>>, <<59, 195>>, <<38, 137, 30, 1, 0>>,
     <<38, 139, 30, 1, 0>>, <<243, 164>>, <<243, 170>>, <<243, 174>>}

\* the buffer ends after the first n bytes of an instruction
TruncatedInputs ==
    UNION {{Input(HTight, IncR(BX) \o SubSeq(code, 1, n)) : n \in 1..Len(code)} :
              code \in WellFormed}

\* and byte [disp16],r8 for every 8-bit register, with AX=0x55AA, CX=0x0F3C,
\* DX=0xF00F, BX=0x8181 and the byte 0xF6 or 0xFF at offset 40
AndMem8(r, disp16) == <<32, r * 8 + 6>> \o WordBytes(disp16)

AndInputs ==
    {Input(HStd, LET code == MovR16(AX, 21930) \o MovR16(CX, 3900) \o MovR16(DX, 61455)
                             \o MovR16(BX, 33153) \o AndMem8(r, 40) \o Exit(0)
                 IN  code \o Zeros(40 - Len(code)) \o <<b>>) :
        r \in 0..7, b \in {246, 255}}

\* loads through [base + disp8] with SI=DI=BP=BX=0x20, DS=0 and SS=1: the
\* words 0x1111, 0x2222 at DS:001E, DS:0022 and 0x3333, 0x4444 at SS:001E,
\* SS:0022
BaseDispInputs ==
    {Input(HStd, LET code == MovR16(SI, 32) \o MovR16(DI, 32) \o MovR16(BP, 32)
                             \o MovR16(BX, 32) \o <<op, 64 + reg * 8 + rm, d8>>
                             \o Exit(0)
                 IN  code \o Zeros(30 - Len(code)) \o <<17, 17, 0, 0, 34, 34>>
                          \o Zeros(10) \o <<51, 51, 0, 0, 68, 68>>) :
        op \in {138, 139}, reg \in {AX, DX}, rm \in 4..7, d8 \in {2, 254}}

\* well-formed encodings of push ds, pop ds, jae, sub/cmp r16,imm16, mov
\* word [disp16],imm16, jmp rel8, repe scasw and call [disp16]
NamedForms ==
    {<<30>>, <<31>>, <<115, 1>>, <<129, 232, 1, 0>>, <<129, 248, 1, 0>>,
     <<199, 6, 40, 0, 1, 0>>, <<235, 1>>, <<243, 175>>, <<255, 22, 40, 0>>}

NamedFormInputs ==
    {Input(HStd, IncR(BX) \o pfx \o code \o IncR(BX) \o IncR(BX) \o Exit(0) \o Zeros(8)) :
        pfx \in {<<>>, EsPrefix}, code \in NamedForms}

\* a 64 KiB load module with code at its start and an instruction ending at
\* (or cut by) offset 0xFFFF, entered at that instruction with CS=0: its
\* byte count or its displacement carries IP past 0xFFFF; the code at offset
\* 0 jumps or calls backwards past 0
WrapHeads == {<<233, 240, 255>>, <<232, 240, 255>>, <<117, 240>>, <<5>> \o Exit(0)}

WrapTails ==
    {IncR(BX), MovR8(AL, 5), <<176>>, <<117, 127>>, <<116, 127>>, <<114, 5>>,
     <<233, 16, 0>>, <<232, 16, 0>>, <<233, 240, 255>>}

WrapInputs ==
    {[raw |-> Cat(Cat(Bytes(Image(Hdr(1, 4096, W16 - Len(tail), 0), head)),
                      [len |-> W16 - Len(head) - Len(tail), b |-> NoBytes.b]),
                  Bytes(tail)),
      custom |-> NoCustom] :
        head \in WrapHeads, tail \in WrapTails}

\* lea r16,[DI+disp8] for every destination, with DS = 0, 2 or 0x1000, DI =
\* 0x0020 or 0xFFFF and a positive or negative displacement, with and
\* without the ES prefix (ES=0)
LeaDisp8(r, d8) == <<141, 64 + r * 8 + 5, d8>>

LeaInputs ==
    {Input(HStd, MovR16(AX, ds) \o MovSregR(DS, AX) \o MovR16(DI, di) \o pfx
                 \o LeaDisp8(r, d8) \o Exit(0)) :
        ds \in {0, 2, 4096}, di \in {32, 65535}, pfx \in {<<>>, EsPrefix},
        r \in 0..7, d8 \in {1, 255}}

\* code entered through CS=1 (linear address 16, behind 16 other bytes) and
\* through CS=0x1000 (linear address 0x10000 of a load module of more than
\* 64 KiB, with other code at its start); code that overwrites the byte of
\* its next instruction but one (0x90 at offset 6 becomes inc bx or dec bx)
CodeSegInputs ==
    {Input(Hdr(1, 4096, ip, 1), IncR(CX) \o Exit(1) \o Zeros(10) \o IncR(BX) \o IncR(BX)
                                \o Exit(2) \o Zeros(8)) : ip \in {0, 1}}
    \cup {[raw |-> Cat(Cat(Bytes(Image(Hdr(1, 4096, ip, 4096), IncR(CX) \o Exit(1))),
                           [len |-> W16 - 6, b |-> NoBytes.b]),
                       Bytes(IncR(BX) \o IncR(BX) \o Exit(2) \o Zeros(8))),
            custom |-> NoCustom] : ip \in {0, 1}}
    \cup {Input(HStd, MovR8(AL, b) \o <<162, 6, 0>> \o IncR(CX) \o <<144>> \o Exit(0)
                      \o Zeros(8)) : b \in {67, 75, 144}}

\* INT 21h/09h: a '$'-terminated string, and a buffer without '$'
PrintInputs ==
    {Input(h, MovR16(DX, 9) \o MovR8(AH, 9) \o IntN(33) \o Exit(0) \o str) :
        h \in {HStd, HTight, HBig}, str \in {<<72, 105, 36>>, <<72, 105>>, <<36>>}}

\* INT 21h/09h with DS=0x1000: "HI$" sits at 0x1000:0x0020 (index 0x10020 of
\* the buffer) and "lo$" at index 0x0020
FarPrintInputs ==
    {[raw |-> Cat(Cat(Bytes(Image(HTight,
                            MovR16(AX, 4096) \o MovSregR(DS, AX) \o MovR16(DX, 32)
                            \o MovR8(AH, 9) \o IntN(33) \o Exit(0) \o Zeros(15)
                            \o <<108, 111, 36>>)),
                     [len |-> W16 - 3, b |-> NoBytes.b]),
                 Bytes(<<72, 73, 36>>)),
      custom |-> NoCustom]}

SubR8(d, r) == <<42, 192 + d * 8 + r>>
MovR8MemDI(r, disp8) == <<138, 64 + r * 8 + 5, disp8>>

\* repe scasb with AL=7 over the bytes 7 7 9 7 at offset 48, entered with ZF
\* set or clear and DF clear or set; long scans and fills of 40 bytes
ScasInputs ==
    {InputWith(HStd, LET code == dfpre \o MovR16(DI, di) \o MovR16(CX, cx) \o MovR16(AX, 7)
                                 \o CmpAL(z) \o RepeScasb \o Exit(0)
                     IN  code \o Zeros(48 - Len(code)) \o <<7, 7, 9, 7>>,
                IF dfpre = <<>> THEN NoCustom ELSE [k \in {85} |-> "customSetDF"]) :
        dfpre \in {<<>>, MovR8(AH, 85) \o IntN(33)}, di \in {48, 49, 51},
        cx \in 0..4, z \in {7, 8}}
    \cup {Input(h, MovR16(DI, 100) \o MovR16(CX, 40) \o CmpAL(0) \o op \o Exit(0)) :
            h \in {HStd, HTight}, op \in {RepeScasb, RepStosb, RepMovsb}}

\* jb, je, jne with forward and backward displacements, entered with
\* ZF=CF=0, with ZF=1 and with CF=1
JccInputs ==
    {Input(HStd, MovR8(AL, 1) \o pre \o <<op, rel>> \o Exit(0)) :
        pre \in {<<>>, CmpAL(1), CmpAL(2)}, op \in {114, 116, 117},
        rel \in {0, 5, 127, 128, 254, 255}}

\* every instruction form with a DS-defaulted memory operand, with and
\* without the ES prefix; ES=3, DS=0, DI=2, BX=0x0705 and the word 0x000D at
\* ES:0004 (offset 52)
OverrideForms ==
    {<<131, 62, 4, 0, 13>>, CmpM8(4, 13), <<32, 30, 4, 0>>, MovR8MemDI(AL, 2),
     MovR8MemDI(DL, 2), MovM16R(4, BX), MovM8R(4, BL), MovRM16(DX, 4), <<140, 30, 4, 0>>}

OverrideFormInputs ==
    {Input(HStd, LET code == MovR16(AX, 3) \o MovSregR(ES, AX) \o MovR16(DI, 2)
                             \o MovR16(BX, 1797) \o pfx \o op \o Exit(0)
                 IN  code \o Zeros(52 - Len(code)) \o <<13, 0>>) :
        pfx \in {<<>>, EsPrefix}, op \in OverrideForms}

\* one instruction of every kind after the flags were set: DF by a caller's
\* handler, ZF and CF by cmp al,imm8 with AL=5
FlagOps ==
    {Sti, Cld, <<3, 193>>, <<131, 192, 1>>, <<131, 232, 1>>, <<43, 193>>, <<42, 193>>,
     <<209, 224>>, <<209, 232>>, <<193, 224, 4>>, <<128, 224, 15>>, <<51, 193>>,
     IncR(AX), <<72>>, PushR(AX), PopR(DX), MovR16(DX, 7), MovR8(DL, 7), RepeScasb,
     RepStosb, Stosb, <<117, 0>>, <<116, 0>>, <<114, 0>>, <<233, 0, 0>>,
     CmpAL(5), CmpR16(AX, CX), CmpR16(CX, AX)}

FlagInputs ==
    {InputWith(HStd, dfpre \o MovR16(AX, 261) \o MovR16(CX, 3) \o CmpAL(b) \o op
                     \o Exit(0), [k \in {85} |-> "customSetDF"]) :
        dfpre \in {<<>>, MovR8(AH, 85) \o IntN(33)}, b \in {5, 9, 1}, op \in FlagOps}

\* instructions with an 8-bit register destination, after the four 16-bit
\* registers got two different non-zero halves; data bytes at offsets 39, 42
ByteRegInputs ==
    {Input(HStd, LET code == MovR16(AX, 4660) \o MovR16(CX, 1281) \o MovR16(DX, 41136)
                             \o MovR16(BX, 259) \o MovR16(DI, 40) \o op \o Exit(0)
                 IN  code \o Zeros(39 - Len(code)) \o <<119, 0, 0, 153>>) :
        op \in {MovR8(r, 90) : r \in 0..7}
               \cup {SubR8(d, r) : d \in 0..7, r \in {CL, CH}}
               \cup {MovR8MemDI(r, d8) : r \in 0..7, d8 \in {2, 255}}}

\* headers whose initial SS:SP is 0x10000 or more
StackInputs ==
    {Input(Hdr(ss, sp, 0, 0), PushR(AX) \o Exit(0)) :
        ss \in {4096, 65535}, sp \in {0, 16, 65535}}

\* DS:DX loaded with segments and offsets up to 0xFFFF:0xFFFF
AddressInputs ==
    {Input(HStd, MovR16(AX, seg) \o MovSregR(DS, AX) \o MovR16(DX, off) \o Exit(0)) :
        seg \in {0, 4095, 4096, 65535}, off \in {0, 16, 65535}}

\* string instructions: ES, DS, SI, DI, CX and AL are loaded, the instruction
\* runs, and four data bytes sit at offset 40 of the load module
StringSetup(e, d, si, di, cx) ==
    MovR16(AX, e) \o MovSregR(ES, AX) \o MovR16(AX, d) \o MovSregR(DS, AX)
    \o MovR16(SI, si) \o MovR16(DI, di) \o MovR16(CX, cx) \o MovR16(AX, 170)

StringData == <<17, 34, 51, 68>>

StringInputs ==
    {Input(h, StringSetup(e, d, 40, di, cx) \o op \o Exit(0) \o Zeros(11)
              \o StringData \o Zeros(36)) :
        h \in {HStd, HBig}, e \in {0, 2, 4096}, d \in {0, 4096},
        di \in {48, 41, 65535}, cx \in {0, 1, 3},
        op \in {RepMovsb, RepStosb, Stosb}}
    \cup {InputWith(h, MovR8(AH, 85) \o IntN(33) \o pre \o MovR16(DI, di)
                       \o MovR16(CX, cx) \o MovR16(AX, 170) \o op \o Exit(0)
                       \o Zeros(48),
                    [k \in {85} |-> "customSetDF"]) :
        h \in {HStd, HBig}, pre \in {<<>>, Cld}, di \in {48, 0}, cx \in {0, 2},
        op \in {RepStosb, Stosb, RepMovsb}}

\* ModR/M bytes tried behind every opcode that carries one
ModRMChoices ==
    {mod * 64 + reg * 8 + rm : mod \in 0..3, reg \in {0, 3, 4, 5, 7}, rm \in {0, 3, 4, 5, 6, 7}}

\* one instruction per first byte (and per ModR/M byte), operand bytes behind
\* it; a prefixed copy of some; the second bytes of the F3 prefix
DecodeInputs ==
    {Input(HStd, <<op, modrm, 1, 0, 1>> \o Zeros(3)) :
        op \in ModRMOpcodes, modrm \in ModRMChoices}
    \cup {Input(HStd, <<op, 1, 0>> \o Zeros(3)) : op \in (0..255) \ ModRMOpcodes}
    \cup {Input(HStd, pfx \o <<op, 6, 1, 0, 1>> \o Zeros(3)) :
            pfx \in {EsPrefix, EsPrefix \o EsPrefix},
            op \in {0, 59, 64, 128, 131, 137, 139, 144, 184, 205, 243}}
    \cup {Input(HStd, <<243, b, 1>> \o Zeros(3)) : b \in {0, 38, 164, 170, 174, 175}}

\* the header of the repository's tests byte for byte (the bytes the parser
\* skips are not zero), in front of a load module
rawHeaderForRunExe ==
    <<77, 90, 43, 0, 1, 0, 0, 0, 2, 0, 1, 1, 255, 255, 1, 0,
      0, 16, 0, 0, 0, 0, 0, 0, 32, 0, 0, 0, 0, 0, 0, 0>>

\* a header whose seven fields all differ
HFields ==
    [exSignature |-> <<77, 90>>, relocationItems |-> 4370, exHeaderSize |-> 3,
     exInitSS |-> 772, exInitSP |-> 1286, exInitIP |-> 1800, exInitCS |-> 2314,
     relocationTableOffset |-> 2828]

\* input streams for the header parser: header sizes 0..4 and a large one,
\* streams cut inside the header, the test header
\* images whose first two bytes are not 'M','Z'
SignatureInputs ==
    {Input([HStd EXCEPT !.exSignature = sig], IncR(BX) \o Exit(3)) :
        sig \in {<<90, 77>>, <<77, 0>>, <<0, 90>>, <<0, 0>>, <<80, 75>>}}

ParseInputs ==
    {[raw |-> Bytes(HeaderBytes([HStd EXCEPT !.exHeaderSize = k]) \o Zeros(pad)
                      \o Exit(3)),
      custom |-> NoCustom] : k \in {0, 1, 2, 3, 4, 4096}, pad \in {0, 6, 22}}
    \cup {[raw |-> Bytes(SubSeq(Image(HStd, Exit(3)), 1, n)), custom |-> NoCustom] : n \in 0..33}
    \cup {[raw |-> Bytes(SubSeq(HeaderBytes([HStd EXCEPT !.exHeaderSize = k]), 1, n)),
            custom |-> NoCustom] : k \in {0, 1}, n \in {9, 10, 20, 25}}
    \cup {[raw |-> Bytes(SubSeq(Image(HFields, Exit(3)), 1, n)), custom |-> NoCustom] :
            n \in {26, 47, 48, 49, 53}}
    \cup {[raw |-> Bytes(rawHeaderForRunExe \o lm), custom |-> NoCustom] :
            lm \in {<<>>, Exit(3), Sti \o Exit(1)}}

Inputs ==
    CodeSegInputs \cup
    LeaInputs \cup
    WrapInputs \cup
    NamedFormInputs \cup
    BaseDispInputs \cup
    AndInputs \cup
    TruncatedInputs \cup
    JccInputs \cup
    OverrideFormInputs \cup
    ScasInputs \cup
    FlagInputs \cup
    ByteRegInputs \cup
    SignatureInputs \cup
    StackInputs \cup
    AddressInputs \cup
    FarPrintInputs \cup
    IntInputs \cup
    ExitInputs \cup PushPopInputs \cup LifoInputs \cup StackErrorInputs
    \cup CallInputs \cup CmpInputs \cup OverrideInputs \cup BoundsInputs
    \cup ErrorInputs \cup PrintInputs \cup ParseInputs \cup StringInputs
    \cup DecodeInputs

(***************************************************************************)
(* runExeWithCustomIntHandlers / RunExe                                    *)
(***************************************************************************)
EmptyMem == [a \in {} |-> 0]

NoHandlers == [k \in {} |-> "custom"]

\* (exit code, state, error) returned by RunExe
Returned(st, e) == [exitCode |-> st.exitCode, state |-> st, err |-> e]

Init ==
    /\ \E in \in Inputs :
          /\ stream = in.raw
          /\ customIntHandlers = in.custom
    /\ header = NoHeader
    /\ loadModule = NoBytes
    /\ pc = "start"
    /\ memorySize = 0
    /\ mem = EmptyMem
    /\ s = ZeroState
    /\ intHandlers = NoHandlers
    /\ out = <<>>
    /\ ret = Returned(ZeroState, "")
    /\ steps = 0
    /\ hist = <<>>

\* the parse of the input stream
Parsed == parseHeaderWithParser(stream)

\* the header parses: newMemoryFromHeader and newState
Start ==
    /\ pc = "start"
    /\ Parsed.err = "" /\ ~Parsed.panic
    /\ header' = Parsed.h
    /\ loadModule' = Parsed.lm
    /\ memorySize' = newMemorySize(Parsed.lm, Parsed.h)
    /\ mem' = newMemoryFromHeader(Parsed.lm)
    /\ s' = newState(Parsed.h)
    /\ intHandlers' = newIntHandlers(customIntHandlers)
    /\ pc' = "running"
    /\ UNCHANGED <<stream, customIntHandlers, out, ret, steps, hist>>

\* the header does not parse: return state{} and the error
StartParseError ==
    /\ pc = "start"
    /\ Parsed.err # ""
    /\ pc' = "error"
    /\ ret' = Returned(ZeroState, Parsed.err)
    /\ UNCHANGED <<stream, header, loadModule, customIntHandlers, memorySize, mem,
                   s, intHandlers, out, steps, hist>>

\* the parser aborts with a run-time panic
StartPanic ==
    /\ pc = "start"
    /\ Parsed.panic
    /\ pc' = "panic"
    /\ UNCHANGED <<stream, header, loadModule, customIntHandlers, memorySize, mem,
                   s, intHandlers, out, ret, steps, hist>>

\* errors.Cause(err) == io.EOF: no memory primitive returns io.EOF
IsEOF(e) == e = "EOF"

\* the decode at CS:IP of the current iteration
Fetch == decodeInstWithMemory(realIP(s), mem)

\* the advance of IP computed in a wider integer
Advance_Unbounded(st, n) == [st EXCEPT !.ip = @ + n]

\* s.ip = s.ip + word(readBytesCount)
Advance(st, n) == [st EXCEPT !.ip = Wrap16(@ + Wrap16(n))]

\* the execution of the current iteration (when the decode succeeded)
Exec == execute(Fetch.inst, Advance(s, Fetch.n), mem, Fetch.so)

\* what hist remembers of an iteration: the decoded instruction, the state
\* and memory it started from and how it ended
Entry(d, r) ==
    [inst |-> d.inst, so |-> d.so, n |-> d.n, derr |-> d.err,
     pre |-> s, prem |-> mem,
     err |-> r.err, panic |-> r.panic, merr |-> r.merr, h |-> r.h, hang |-> r.hang,
     o |-> r.o]

Remember(e) ==
    IF Len(hist) < HistLen THEN Append(hist, e) ELSE Append(Tail(hist), e)

Iterate(d, r) ==
    /\ steps' = steps + 1
    /\ hist' = Remember(Entry(d, r))
    /\ UNCHANGED <<stream, header, loadModule, customIntHandlers, memorySize,
                   intHandlers>>

\* an iteration whose decode fails: break on io.EOF, return the error otherwise
StepDecodeError ==
    /\ pc = "running" /\ steps < MaxSteps
    /\ Fetch.err # ""
    /\ IF IsEOF(Fetch.err)
       THEN pc' = "done" /\ ret' = Returned(s, "")
       ELSE pc' = "error" /\ ret' = Returned(ZeroState, Fetch.err)
    /\ Iterate(Fetch, Res(s, mem))
    /\ UNCHANGED <<s, mem, out>>

\* an iteration that executes an instruction and goes on
StepExecute ==
    /\ pc = "running" /\ steps < MaxSteps
    /\ Fetch.err = ""
    /\ Exec.err = "" /\ ~Exec.panic /\ ~Exec.hang
    /\ ~Exec.s.shouldExit
    /\ s' = Exec.s /\ mem' = Exec.m /\ out' = out \o Exec.o
    /\ Iterate(Fetch, Exec)
    /\ UNCHANGED <<pc, ret>>

\* an iteration after which s.shouldExit is set: the loop breaks
StepExit ==
    /\ pc = "running" /\ steps < MaxSteps
    /\ Fetch.err = ""
    /\ Exec.err = "" /\ ~Exec.panic /\ ~Exec.hang
    /\ Exec.s.shouldExit
    /\ s' = Exec.s /\ mem' = Exec.m /\ out' = out \o Exec.o
    /\ pc' = "done" /\ ret' = Returned(Exec.s, "")
    /\ Iterate(Fetch, Exec)

\* an iteration whose execute returns an error
StepExecuteError ==
    /\ pc = "running" /\ steps < MaxSteps
    /\ Fetch.err = ""
    /\ Exec.err # "" /\ ~Exec.panic
    /\ s' = Exec.s /\ mem' = Exec.m
    /\ pc' = "error" /\ ret' = Returned(ZeroState, Exec.err)
    /\ Iterate(Fetch, Exec)
    /\ UNCHANGED out

\* an iteration in which the Go run time panics (index out of range)
StepPanic ==
    /\ pc = "running" /\ steps < MaxSteps
    /\ Fetch.err = ""
    /\ Exec.panic
    /\ s' = Exec.s /\ mem' = Exec.m
    /\ pc' = "panic"
    /\ Iterate(Fetch, Exec)
    /\ UNCHANGED <<out, ret>>

\* an iteration whose interrupt handler never returns
StepHang ==
    /\ pc = "running" /\ steps < MaxSteps
    /\ Fetch.err = ""
    /\ Exec.hang
    /\ pc' = "hang"
    /\ Iterate(Fetch, Exec)
    /\ UNCHANGED <<s, mem, out, ret>>

Next ==
    \/ Start
    \/ StartParseError
    \/ StartPanic
    \/ StepDecodeError
    \/ StepExecute
    \/ StepExit
    \/ StepExecuteError
    \/ StepPanic
    \/ StepHang

Spec == Init /\ [][Next]_vars

TypeOK ==
    /\ pc \in {"start", "running", "done", "error", "panic", "hang"}
    /\ steps \in 0..MaxSteps
    /\ \A a \in DOMAIN mem : a < memorySize /\ mem[a] \in 1..255

(***************************************************************************)
(* Vocabulary of the properties                                            *)
(***************************************************************************)
HLen == Len(hist)

\* the last iteration and the k-th one before it
Last == hist[HLen]
Back(k) == hist[HLen - k]

\* the iteration decoded an instruction and executed it without error
Completed(e) == e.derr = "" /\ e.err = "" /\ ~e.panic /\ ~e.hang

\* value of the 16-bit general register r in a state
Reg16(st, r) == st[RegWName[r + 1]]

\* the little-endian word stored at the buffer indices a, a+1
WordAt(m, a) == MemAt(m, a) + W8 * MemAt(m, a + 1)

\* linear address of the instruction an iteration fetched
FetchAddr(e) == Wrap16(e.pre.cs * paragraphSize + e.pre.ip)

\* the state with the instruction pointer and the flags masked out
Frame(st) == [st EXCEPT !.ip = 0, !.eflags = 0]

ZFOf(st) == (st.eflags \div EFLAGS_ZF) % 2
CFOf(st) == st.eflags % 2
DFOf(st) == (st.eflags \div EFLAGS_DF) % 2

(***************************************************************************)
(* C1                                                                      *)
(***************************************************************************)
\* the bytes CD 21 (int 0x21) are at CS:IP, inside the buffer
Int21AtIP ==
    LET a == Wrap16(s.cs * paragraphSize + s.ip)
    IN  a + 1 < memorySize /\ MemAt(mem, a) = 205 /\ MemAt(mem, a + 1) = 33

\* C1: after int 0x21 executes with AH=0x4C under the default handlers the
\* interpreter is Terminated with exitCode = AL at the moment of the
\* interrupt, registers, flags and memory are as they were at the interrupt
\* (IP past the instruction), and nothing changes once it is Terminated.
C1_Int4cTerminates ==
    [][ /\ (pc = "running" /\ Int21AtIP /\ s.ax \div W8 = 76
             /\ intHandlers[76] = "intHandler4c")
           => /\ pc' = "done"
              /\ s'.shouldExit
              /\ s'.exitCode = s.ax % W8
              /\ ret'.exitCode = s.ax % W8 /\ ret'.err = "" /\ ret'.state = s'
              /\ s' = [s EXCEPT !.ip = Wrap16(@ + 2), !.exitCode = s.ax % W8,
                                !.shouldExit = TRUE]
              /\ mem' = mem
        /\ (pc = "done" => UNCHANGED <<s, mem, ret, pc, out>>) ]_vars

\* a run terminated by INT 21h/4Ch with a non-zero AL, an instruction following
C1_Witness ==
    /\ pc = "done" /\ HLen > 0
    /\ Last.inst.t = "instInt" /\ Last.inst.a = 33 /\ Last.pre.ax = 19456 + 255
    /\ Last.h = "intHandler4c"
    /\ ret.exitCode = 255
    /\ MemAt(mem, FetchAddr(Last) + 2) = 67

(***************************************************************************)
(* C2                                                                      *)
(***************************************************************************)
\* linear address written by the last iteration when it is an unprefixed
\* mov [disp16], r16 or a push r16 (-1 otherwise)
WordWriteAddr(e) ==
    CASE e.derr = "" /\ e.inst.t = "instMovMem16Reg16" /\ e.so = ""
            -> Wrap16(e.pre.ds * paragraphSize + e.inst.a)
      [] e.derr = "" /\ e.inst.t = "instPush"
            -> Wrap16(e.pre.ss * paragraphSize + Wrap16(e.pre.sp - 2))
      [] OTHER -> -1

\* C2: every memory write lands inside the buffer, and a word write whose
\* first byte is inside the buffer but whose last byte is outside fails with
\* an illegal-address error and leaves memory unchanged.
C2_WordWriteAcrossEndFails ==
    /\ \A a \in DOMAIN mem : a + 1 <= memorySize
    /\ (HLen > 0 /\ WordWriteAddr(Last) >= 0 /\ WordWriteAddr(Last) + 1 = memorySize)
        => (pc = "error" /\ ret.err = "illegal address" /\ mem = Last.prem)

(***************************************************************************)
(* C3                                                                      *)
(***************************************************************************)
\* C3: when the opcode fetch at CS:IP finds no byte (CS:IP is the end of the
\* buffer) the run ends Terminated without an error and the entry point
\* returns the current state.
C3_CleanEndOfStream ==
    (HLen > 0 /\ FetchAddr(Last) >= memorySize)
        => (pc = "done" /\ ret.err = "" /\ ret.state = Last.pre)

(***************************************************************************)
(* C4                                                                      *)
(***************************************************************************)
\* C4: an iteration in which decoding, execution, a memory bounds check or
\* the interrupt dispatch fails ends the run: the entry point returns the
\* error with exit code 0 and an empty state, and nothing runs afterwards;
\* a non-zero exit code is only reported after INT 21h/4Ch terminated the run.
C4_ErrorsEndTheRun ==
    /\ (HLen > 0 /\ (Last.derr # "" \/ Last.err # "" \/ Last.merr))
        => (pc = "error" /\ ret.err # "" /\ ret.exitCode = 0 /\ ret.state = ZeroState)
    /\ (pc = "error" => ~ENABLED Next)
    /\ (ret.exitCode # 0 => (pc = "done" /\ Last.inst.t = "instInt"))

(***************************************************************************)
(* C5                                                                      *)
(***************************************************************************)
\* C5: push r immediately followed by pop r', the push succeeding, leaves r'
\* equal to the value r held before the push and SP equal to its value
\* before the push.
C5_PushPopRoundTrip ==
    (/\ HLen >= 2
     /\ Back(1).derr = "" /\ Back(1).inst.t = "instPush" /\ Completed(Back(1))
     /\ Last.derr = "" /\ Last.inst.t = "instPop")
        => /\ Reg16(s, Last.inst.a) = Reg16(Back(1).pre, Back(1).inst.a)
           /\ s.sp = Back(1).pre.sp

(***************************************************************************)
(* C6                                                                      *)
(***************************************************************************)
\* C6: two successful pushes of v1 then v2 followed by two pops deliver v2
\* then v1, and SP is back at its value before the first push.
C6_StackIsLifo ==
    (/\ HLen >= 4
     /\ \A k \in 0..3 : Back(k).derr = ""
     /\ Back(3).inst.t = "instPush" /\ Completed(Back(3))
     /\ Back(2).inst.t = "instPush" /\ Completed(Back(2))
     /\ Back(1).inst.t = "instPop" /\ Last.inst.t = "instPop")
        => /\ Reg16(Last.pre, Back(1).inst.a) = Reg16(Back(2).pre, Back(2).inst.a)
           /\ Reg16(s, Last.inst.a) = Reg16(Back(3).pre, Back(3).inst.a)
           /\ s.sp = Back(3).pre.sp

(***************************************************************************)
(* C7                                                                      *)
(***************************************************************************)
\* the byte 0x26 is the first byte of the instruction an iteration fetched
Prefixed(e) == MemAt(e.prem, FetchAddr(e)) = 38

\* offset N of the instruction following a call rel16 (E8 lo hi, or 26 E8 lo hi)
CallN(e) == Wrap16(e.pre.ip + (IF Prefixed(e) THEN 4 ELSE 3))

IsCall(e) == e.derr = "" /\ e.inst.t = "instCall" /\ Completed(e)

\* an instruction that leaves the stack and SP alone
StackNeutral(e) ==
    /\ Completed(e)
    /\ \/ e.inst.t = "instSti"
       \/ e.inst.t = "instInc" /\ e.inst.a # SP

\* the k-1 iterations between Back(k) and Last use the stack in a balanced way
BalancedBetween(k) ==
    CASE k = 1 -> TRUE
      [] k = 2 -> StackNeutral(Back(1))
      [] OTHER -> \/ StackNeutral(Back(2)) /\ StackNeutral(Back(1))
                  \/ /\ Completed(Back(2)) /\ Back(2).inst.t = "instPush"
                     /\ Completed(Back(1)) /\ Back(1).inst.t = "instPop"
                     /\ Back(1).inst.a # SP

\* C7: call rel16 pushes the offset N of the following instruction and sets
\* IP to N + rel16; after the matching ret (balanced stack use in between)
\* IP is N and SP is the value it had before the call.
C7_CallRetRoundTrip ==
    /\ (HLen > 0 /\ IsCall(Last))
        => /\ WordAt(mem, Wrap16(s.ss * paragraphSize + s.sp)) = CallN(Last)
           /\ s.ip = Wrap16(CallN(Last) + Last.inst.a)
           /\ s.sp = Wrap16(Last.pre.sp - 2)
    /\ \A k \in 1..3 :
        (/\ HLen > k /\ Last.derr = "" /\ Last.inst.t = "instRet"
         /\ IsCall(Back(k)) /\ BalancedBetween(k))
            => /\ s.ip = CallN(Back(k))
               /\ s.sp = Back(k).pre.sp

(***************************************************************************)
(* C8                                                                      *)
(***************************************************************************)
IsCmp(e) ==
    /\ e.derr = "" /\ e.so = "" /\ Completed(e)
    /\ e.inst.t \in {"instCmpReg16Reg16", "instCmpReg8Imm8",
                     "instCmpMem8Imm8", "instCmpMem16Imm8"}

\* first operand of a cmp, as an unsigned value of the operand width
CmpLeft(e) ==
    CASE e.inst.t = "instCmpReg16Reg16" -> Reg16(e.pre, e.inst.a)
      [] e.inst.t = "instCmpReg8Imm8"   -> e.pre.ax % W8
      [] e.inst.t = "instCmpMem8Imm8"
            -> MemAt(e.prem, Wrap16(e.pre.ds * paragraphSize + e.inst.a))
      [] OTHER -> WordAt(e.prem, Wrap16(e.pre.ds * paragraphSize + e.inst.a))

\* second operand (the immediate byte sign-extended for the word form)
CmpRight(e) ==
    CASE e.inst.t = "instCmpReg16Reg16" -> Reg16(e.pre, e.inst.b)
      [] e.inst.t = "instCmpReg8Imm8"   -> Wrap8(e.inst.b)
      [] e.inst.t = "instCmpMem8Imm8"   -> Wrap8(e.inst.b)
      [] OTHER -> Wrap16(e.inst.b)

\* the flags other than ZF and CF
OtherFlags(st) == st.eflags - ZFOf(st) * EFLAGS_ZF - CFOf(st) * EFLAGS_CF

\* C8: every cmp form sets ZF=1 exactly when the operands are equal and CF=1
\* exactly when the first is below the second as unsigned values of the
\* operand width; DF, the operands, all other registers and memory are
\* unchanged.
C8_CmpFlags ==
    (HLen > 0 /\ IsCmp(Last))
        => /\ (ZFOf(s) = 1) = (CmpLeft(Last) = CmpRight(Last))
           /\ (CFOf(s) = 1) = (CmpLeft(Last) < CmpRight(Last))
           /\ OtherFlags(s) = OtherFlags(Last.pre)
           /\ Frame(s) = Frame(Last.pre)
           /\ mem = Last.prem

(***************************************************************************)
(* C9                                                                      *)
(***************************************************************************)
\* the real address segment*16 + offset
Linear(seg, off) == seg * paragraphSize + off

IsEsMovMem16Reg16(e) ==
    /\ e.derr = "" /\ e.inst.t = "instMovMem16Reg16" /\ Completed(e)
    /\ Prefixed(e) /\ e.pre.es # e.pre.ds

\* C9: ES: mov [disp16], r16 with ES different from DS writes r16 as a
\* little-endian word at ES:disp16, leaves the word at DS:disp16 unchanged
\* and leaves the DS register unchanged.
C9_EsOverrideWrite ==
    (HLen > 0 /\ IsEsMovMem16Reg16(Last))
        => /\ WordAt(mem, Linear(Last.pre.es, Last.inst.a)) = Reg16(Last.pre, Last.inst.b)
           /\ WordAt(mem, Linear(Last.pre.ds, Last.inst.a))
                = WordAt(Last.prem, Linear(Last.pre.ds, Last.inst.a))
           /\ s.ds = Last.pre.ds

(***************************************************************************)
(* C10                                                                     *)
(***************************************************************************)
\* C10: the prefix 0x26 applies to the one instruction it prefixes (that one
\* runs with ES in place of DS and DS is back afterwards); the next
\* instruction, without a prefix, is decoded with no override and reads and
\* writes its [disp16] operand at the address formed from DS.
C10_OverrideScope ==
    (/\ HLen >= 2 /\ Back(1).derr = "" /\ Last.derr = ""
     /\ Prefixed(Back(1)) /\ ~Prefixed(Last))
        => /\ Back(1).so = "ES" /\ Last.so = ""
           /\ (Completed(Back(1))
                /\ ~(Back(1).inst.t = "instMovSRegReg" /\ Back(1).inst.a = DS))
                => Last.pre.ds = Back(1).pre.ds
           /\ (Completed(Back(1)) /\ Back(1).inst.t = "instMovMem16Reg16")
                => WordAt(Last.prem, realAddress(Back(1).pre.es, Back(1).inst.a))
                      = Reg16(Back(1).pre, Back(1).inst.b)
           /\ (Completed(Last) /\ Last.inst.t = "instMovMem16Reg16")
                => LET d == realAddress(Last.pre.ds, Last.inst.a)
                       e == realAddress(Last.pre.es, Last.inst.a)
                   IN  /\ WordAt(mem, d) = Reg16(Last.pre, Last.inst.b)
                       /\ (e + 2 <= d \/ d + 2 <= e)
                            => WordAt(mem, e) = WordAt(Last.prem, e)
           /\ (Completed(Last) /\ Last.inst.t = "instMovReg16Mem16")
                => Reg16(s, Last.inst.a)
                      = WordAt(Last.prem, realAddress(Last.pre.ds, Last.inst.b))

\* a prefixed word store through ES followed by an unprefixed word store
\* through DS, the two segments addressing different memory
C10_Witness ==
    /\ HLen >= 2 /\ pc = "running"
    /\ Completed(Back(1)) /\ Prefixed(Back(1)) /\ Back(1).inst.t = "instMovMem16Reg16"
    /\ Completed(Last) /\ ~Prefixed(Last) /\ Last.inst.t = "instMovMem16Reg16"
    /\ Last.pre.es = 16 /\ Last.pre.ds = 1
    /\ WordAt(mem, realAddress(16, 56)) = 4660
    /\ WordAt(mem, realAddress(1, 58)) = 22136

(***************************************************************************)
(* C11                                                                     *)
(***************************************************************************)
\* the instruction an iteration fetched starts with the bytes bs
FetchedBytes(e, bs) ==
    \A k \in 1..Len(bs) : MemAt(e.prem, FetchAddr(e) + k - 1) = bs[k]

\* the real addresses of the n bytes at seg:off, seg:off+1, ... (the offset
\* wraps inside the segment)
Region(seg, off, n) == {Linear(seg, Wrap16(off + i)) : i \in 0..(n - 1)}

\* every byte outside a set of addresses is the same in both memories
SameOutside(m1, m2, keep) ==
    \A a \in (DOMAIN m1 \cup DOMAIN m2) \ keep : MemAt(m1, a) = MemAt(m2, a)

IsRepMovsb(e) ==
    /\ e.derr = "" /\ FetchedBytes(e, <<243, 164>>)
    /\ DFOf(e.pre) = 0
    /\ \A a \in Region(e.pre.ds, e.pre.si, e.pre.cx)
                  \cup Region(e.pre.es, e.pre.di, e.pre.cx) : a < memorySize
    /\ Region(e.pre.ds, e.pre.si, e.pre.cx)
          \cap Region(e.pre.es, e.pre.di, e.pre.cx) = {}

\* C11: rep movsb with CX=n, DF=0 and non-overlapping source DS:SI.. and
\* destination ES:DI.. regions inside the buffer copies exactly n bytes
\* (destination byte i = source byte i, no other byte changes), leaves CX=0
\* and advances SI and DI by n.
C11_RepMovsbCopies ==
    (HLen > 0 /\ IsRepMovsb(Last))
        => LET p == Last.pre
               n == p.cx
           IN  /\ Completed(Last)
               /\ \A i \in 0..(n - 1) :
                     MemAt(mem, Linear(p.es, Wrap16(p.di + i)))
                        = MemAt(Last.prem, Linear(p.ds, Wrap16(p.si + i)))
               /\ SameOutside(mem, Last.prem, Region(p.es, p.di, n))
               /\ s.cx = 0
               /\ s.si = Wrap16(p.si + n)
               /\ s.di = Wrap16(p.di + n)

(***************************************************************************)
(* C12                                                                     *)
(***************************************************************************)
IsRepStosb(e) ==
    /\ e.derr = "" /\ FetchedBytes(e, <<243, 170>>)
    /\ DFOf(e.pre) = 0
    /\ \A a \in Region(e.pre.es, e.pre.di, e.pre.cx) : a < memorySize

IsStosb(e) ==
    /\ e.derr = "" /\ FetchedBytes(e, <<170>>)
    /\ Linear(e.pre.es, e.pre.di) < memorySize

\* C12: rep stosb with CX=n and DF=0 sets the n bytes from the
\* pre-instruction ES:DI to AL, changes no other byte, leaves CX=0 and DI
\* advanced by n; a single stosb writes AL at ES:DI and moves DI by +1 when
\* DF=0 and by -1 when DF=1.
C12_StosbFills ==
    /\ (HLen > 0 /\ IsRepStosb(Last))
        => LET p == Last.pre
               n == p.cx
           IN  /\ Completed(Last)
               /\ \A a \in Region(p.es, p.di, n) : MemAt(mem, a) = p.ax % W8
               /\ SameOutside(mem, Last.prem, Region(p.es, p.di, n))
               /\ s.cx = 0
               /\ s.di = Wrap16(p.di + n)
    /\ (HLen > 0 /\ IsStosb(Last))
        => LET p == Last.pre
           IN  /\ Completed(Last)
               /\ MemAt(mem, Linear(p.es, p.di)) = p.ax % W8
               /\ SameOutside(mem, Last.prem, {Linear(p.es, p.di)})
               /\ s.di = Wrap16(p.di + (IF DFOf(p) = 0 THEN 1 ELSE -1))

(***************************************************************************)
(* C13                                                                     *)
(***************************************************************************)
\* number of displacement bytes a ModR/M byte announces (16-bit addressing)
DispBytes(modrm) ==
    LET mod == modrm \div 64
        rm  == modrm % 8
    IN  CASE mod = 0 -> IF rm = 6 THEN 2 ELSE 0
          [] mod = 1 -> 1
          [] mod = 2 -> 2
          [] OTHER   -> 0

\* opcode /r forms, and those of them followed by an immediate byte
OpcodesWithModRM == {3, 32, 42, 43, 51, 59, 128, 131, 136, 137, 138, 139,
                     140, 141, 142, 193, 209}
OpcodesWithModRMImm8 == {128, 131, 193}

\* opcodes of one byte, opcodes with one operand byte, with two operand bytes
OpcodesAlone == (64..95) \cup {164, 170, 174, 195, 251, 252}
OpcodesWithByte == {60, 114, 116, 117, 205} \cup (176..183)
OpcodesWithWord == {161, 162, 163, 232, 233} \cup (184..191)

\* encoded length of the instruction at address a: prefixes, opcode, ModR/M,
\* displacement and immediate bytes (0 for a byte that starts no instruction)
RECURSIVE EncodedLength(_, _)
EncodedLength(m, a) ==
    LET b == MemAt(m, a)
    IN  CASE b \in {38, 243} -> 1 + EncodedLength(m, a + 1)
          [] b \in OpcodesWithModRM ->
                2 + DispBytes(MemAt(m, a + 1))
                  + (IF b \in OpcodesWithModRMImm8 THEN 1 ELSE 0)
          [] b \in OpcodesAlone -> 1
          [] b \in OpcodesWithByte -> 2
          [] b \in OpcodesWithWord -> 3
          [] OTHER -> 0

\* instruction types that set IP themselves
ControlTransfers ==
    {"instCall", "instRet", "instJmpRel16", "instJb", "instJeRel8", "instJneRel8"}

\* C13: the byte count returned with a decoded instruction is its encoded
\* length from the fetch point (prefixes, opcode, ModR/M, displacement and
\* immediate bytes), and the loop advances IP by exactly that count.
C13_DecodedLength ==
    (HLen > 0 /\ Last.derr = "")
        => /\ Last.n = EncodedLength(Last.prem, FetchAddr(Last))
           /\ (Completed(Last) /\ Last.inst.t \notin ControlTransfers)
                => s.ip = Wrap16(Last.pre.ip + EncodedLength(Last.prem, FetchAddr(Last)))

(***************************************************************************)
(* C14                                                                     *)
(***************************************************************************)
\* first bytes of the opcode map: 03, 1E, 1F, 20, 26, 2A, 2B, 33, 3B, 3C,
\* 40-5F, 72-75, 80, 81, 83, 88-8E, A1-A3, AA, B0-BF, C1, C3, C7, CD, D1, E8,
\* E9, EB, F3, FB, FC, FF
OpcodeMap ==
    {3, 30, 31, 32, 38, 42, 43, 51, 59, 60} \cup (64..95) \cup (114..117)
    \cup {128, 129, 131} \cup (136..142) \cup {161, 162, 163, 170}
    \cup (176..191) \cup {193, 195, 199, 205, 209, 232, 233, 235, 243, 251, 252, 255}

\* the iteration fetched, inside the buffer, a first byte outside the opcode map
FetchedUnknown(e) ==
    /\ FetchAddr(e) < memorySize
    /\ MemAt(e.prem, FetchAddr(e)) \notin OpcodeMap

\* C14: an instruction whose first byte is not an opcode of the opcode map
\* (0x00, 0x90, ...) yields a decode error; nothing is executed for it and
\* the run ends with the error.
C14_UnknownOpcode ==
    (HLen > 0 /\ FetchedUnknown(Last))
        => /\ Last.derr # "" /\ Last.inst = NoInst
           /\ pc = "error" /\ ret.err = Last.derr /\ ret.state = ZeroState
           /\ s = Last.pre /\ mem = Last.prem

\* the byte 0x00 fetched after an executed instruction
C14_Witness ==
    /\ HLen = 2 /\ Completed(Back(1)) /\ Back(1).inst.t = "instInc"
    /\ FetchedUnknown(Last) /\ MemAt(Last.prem, FetchAddr(Last)) = 0
    /\ pc = "error"

(***************************************************************************)
(* C15                                                                     *)
(***************************************************************************)
\* the iteration fetched int n (CD n) inside the buffer
FetchedInt(e) == FetchAddr(e) + 1 < memorySize /\ FetchedBytes(e, <<205>>)

IntVector(e) == MemAt(e.prem, FetchAddr(e) + 1)

\* C15: int n with n # 0x21, and int 0x21 with an AH that has no handler in
\* the registry, end the run with an error; no handler is invoked (registers
\* other than IP and memory stay as they were).
C15_UnknownInterrupt ==
    (HLen > 0 /\ FetchedInt(Last)
       /\ (IntVector(Last) # 33 \/ ah(Last.pre) \notin DOMAIN intHandlers))
        => /\ Last.derr = "" /\ Last.err # "" /\ Last.h = ""
           /\ pc = "error" /\ ret.err = Last.err /\ ret.state = ZeroState
           /\ Frame(s) = Frame(Last.pre) /\ mem = Last.prem

\* int 0x20 with AH=0x4C (a handler exists for that AH under int 0x21), and
\* int 0x21 with AH=0x56 next to a caller's handler for 0x55
C15_Witness ==
    /\ HLen > 0 /\ FetchedInt(Last) /\ pc = "error"
    /\ \/ IntVector(Last) = 32 /\ ah(Last.pre) = 76
       \/ /\ IntVector(Last) = 33 /\ ah(Last.pre) = 86
          /\ 85 \in DOMAIN customIntHandlers

(***************************************************************************)
(* C16                                                                     *)
(***************************************************************************)
\* the default int 21h handlers by AH value
Int21Defaults ==
    [k \in {9, 48, 74, 76} |->
        CASE k = 9  -> "intHandler09"
          [] k = 48 -> "intHandler30"
          [] k = 74 -> "intHandler4a"
          [] k = 76 -> "intHandler4c"]

\* the handler the claim binds to the AH value k
BoundHandler(k) ==
    IF k \in DOMAIN customIntHandlers THEN customIntHandlers[k] ELSE Int21Defaults[k]

\* the registry has been built
Started == pc = "running" \/ HLen > 0

\* the registry holds the caller's handlers and, for the other keys among
\* 0x09, 0x30, 0x4A, 0x4C, the defaults
RegistryAsStated ==
    /\ DOMAIN intHandlers = DOMAIN customIntHandlers \cup DOMAIN Int21Defaults
    /\ \A k \in DOMAIN intHandlers : intHandlers[k] = BoundHandler(k)

\* int 0x21 invokes the handler bound to AH; the caller's (no-op) handler
\* leaves the interpreter running with registers and memory as they were
DispatchAsStated ==
    (HLen > 0 /\ FetchedInt(Last) /\ IntVector(Last) = 33
       /\ ah(Last.pre) \in DOMAIN customIntHandlers \cup DOMAIN Int21Defaults)
        => /\ Last.h = BoundHandler(ah(Last.pre))
           /\ Last.h = "custom" =>
                 /\ pc = "running" /\ ~s.shouldExit
                 /\ Frame(s) = Frame(Last.pre) /\ mem = Last.prem

\* C16: a caller-supplied handler for the AH value k is the one invoked by
\* int 0x21 with AH=k, also when k is 0x09, 0x30, 0x4A or 0x4C; those four
\* keys are bound to the defaults when the caller left them unset; no step
\* of the run changes the caller's map.
C16_HandlerRegistry ==
    /\ [](Started => (RegistryAsStated /\ DispatchAsStated))
    /\ [][customIntHandlers' = customIntHandlers]_vars

\* int 0x21 with AH=0x4C ran the caller's handler instead of the default
\* and the run goes on
C16_Witness ==
    /\ HLen > 0 /\ FetchedInt(Last) /\ IntVector(Last) = 33
    /\ ah(Last.pre) = 76 /\ Last.h = "custom" /\ pc = "running"
    /\ 9 \notin DOMAIN customIntHandlers /\ intHandlers[9] = "intHandler09"

(***************************************************************************)
(* C17                                                                     *)
(***************************************************************************)
\* the iteration ran int 0x21 with AH=0x09 under the default handler
IsPrint(e) ==
    /\ FetchedInt(e) /\ IntVector(e) = 33 /\ ah(e.pre) = 9
    /\ 9 \notin DOMAIN customIntHandlers

\* indices of the '$' bytes at or after DS:DX
DollarsFrom(e) ==
    {a \in DOMAIN e.prem : a >= Linear(e.pre.ds, e.pre.dx) /\ e.prem[a] = 36}

FirstDollar(e) == CHOOSE a \in DollarsFrom(e) : \A b \in DollarsFrom(e) : a <= b

\* the bytes from DS:DX up to but not including the first '$'
DollarString(e) ==
    [k \in 1..(FirstDollar(e) - Linear(e.pre.ds, e.pre.dx)) |->
        MemAt(e.prem, Linear(e.pre.ds, e.pre.dx) + k - 1)]

\* C17: under int 0x21 with AH=0x09 the default handler emits exactly the
\* bytes from DS:DX up to but not including the first '$', in memory order;
\* registers, flags and memory are unchanged and the interpreter is Running.
C17_PrintString ==
    (HLen > 0 /\ IsPrint(Last) /\ DollarsFrom(Last) # {})
        => /\ Completed(Last) /\ Last.o = DollarString(Last)
           /\ pc = "running" /\ ~s.shouldExit
           /\ s = Advance(Last.pre, 2) /\ mem = Last.prem

(***************************************************************************)
(* C18                                                                     *)
(***************************************************************************)
\* the segment:offset pairs the interpreter forms addresses from
SegOffPairs(st) ==
    {<<st.cs, st.ip>>, <<st.ss, st.sp>>, <<st.ds, st.dx>>, <<st.ds, st.si>>,
     <<st.ds, st.bx>>, <<st.es, st.di>>}

\* C18: realAddress(seg, offset) = seg*16 + offset for all 16-bit seg and
\* offset, with no truncation to 16 bits (realAddress(0xFFFF, 0xFFFF) =
\* 0x10FFEF); stated for the segment:offset pairs of the registers.
C18_RealAddressExact ==
    \A p \in SegOffPairs(s) : realAddress(p[1], p[2]) = p[1] * paragraphSize + p[2]

(***************************************************************************)
(* C19                                                                     *)
(***************************************************************************)
\* initSS*16 + initSP of the parsed header
InitialStackTop == Linear(header.exInitSS, header.exInitSP)

\* C19: the memory buffer created at start has length len(loadModule) +
\* (initSS*16 + initSP) for every header and load module, values of
\* initSS*16 + initSP >= 0x10000 included, so the initial SS:SP lies inside
\* or at the end of the buffer; the length is the same in every later state.
C19_BufferLength ==
    Started => /\ memorySize = loadModule.len + InitialStackTop
               /\ InitialStackTop <= memorySize

(***************************************************************************)
(* C20                                                                     *)
(***************************************************************************)
\* the little-endian 16-bit value at a byte offset of the input stream
StreamWord(off) == ByteAt(stream, off) + W8 * ByteAt(stream, off + 1)

\* the parser returned the seven fields read at their offsets and the bytes
\* from headerSize*16 to the end of the stream as the load module
ParsedAsStated ==
    /\ stream.len >= 26
    /\ StreamWord(8) * 16 <= stream.len
    /\ header.relocationItems = StreamWord(6)
    /\ header.exHeaderSize = StreamWord(8)
    /\ header.exInitSS = StreamWord(14)
    /\ header.exInitSP = StreamWord(16)
    /\ header.exInitIP = StreamWord(20)
    /\ header.exInitCS = StreamWord(22)
    /\ header.relocationTableOffset = StreamWord(24)
    /\ loadModule.len = stream.len - StreamWord(8) * 16
    /\ \A i \in DOMAIN loadModule.b \cup {x - StreamWord(8) * 16 : x \in DOMAIN stream.b} :
          i >= 0 => ByteAt(loadModule, i) = ByteAt(stream, StreamWord(8) * 16 + i)

\* the run ended in the parser with an error
ParseErrorReturned ==
    pc = "error" /\ HLen = 0 /\ ret.err # "" /\ ret.state = ZeroState

\* C20: for every input stream and every headerSize (0 and 1 included) header
\* parsing either returns the seven fields as the little-endian words at
\* offsets 6, 8, 14, 16, 20, 22, 24 with the load module equal to the bytes
\* from headerSize*16 to the end, or returns a parse error; it never aborts
\* in any other way.
C20_HeaderParseTotal ==
    pc # "start" => (ParsedAsStated \/ ParseErrorReturned)

(***************************************************************************)
(* C21                                                                     *)
(***************************************************************************)
\* the input starts with the bytes 'M','Z'
HasSignature == stream.len >= 2 /\ ByteAt(stream, 0) = 77 /\ ByteAt(stream, 1) = 90

\* C21: an input whose first two bytes are not 'M','Z' is rejected with a
\* header parse error; no memory is built and no instruction is executed.
C21_SignatureChecked ==
    (pc # "start" /\ ~HasSignature)
        => /\ ParseErrorReturned
           /\ memorySize = 0 /\ mem = EmptyMem /\ steps = 0

(***************************************************************************)
(* C22                                                                     *)
(***************************************************************************)
\* the input ends inside the 26 bytes of the header fields, or before the
\* offset headerSize*16
Truncated == stream.len < 26 \/ stream.len < StreamWord(8) * paragraphSize

\* C22: if the input ends before a required header field is complete, or
\* before offset headerSize*16, parsing fails with an error and yields
\* neither a header nor a load module; the run returns that error without
\* executing any instruction.
C22_TruncatedHeader ==
    (pc # "start" /\ Truncated)
        => /\ ParseErrorReturned
           /\ header = NoHeader /\ loadModule = NoBytes
           /\ memorySize = 0 /\ steps = 0 /\ out = <<>>

\* all fields are present and the input ends before offset headerSize*16
C22_Witness ==
    /\ pc = "error" /\ stream.len >= 26 /\ stream.len < StreamWord(8) * paragraphSize
    /\ ret.err = "failed to parse remains of header"

(***************************************************************************)
(* C23                                                                     *)
(***************************************************************************)
\* the state between the construction and the first decode
BeforeFirstDecode == pc = "running" /\ steps = 0

\* C23: immediately before the first instruction is decoded CS, IP, SS and
\* SP are initCS, initIP, initSS and initSP as read from the header (the
\* words at offsets 22, 20, 14 and 16), every other general and segment
\* register is 0, the flags word is 0, the exit code is 0 and the
\* termination flag is false.
C23_InitialState ==
    BeforeFirstDecode
        => /\ s.cs = StreamWord(22) /\ s.ip = StreamWord(20)
           /\ s.ss = StreamWord(14) /\ s.sp = StreamWord(16)
           /\ \A r \in {"ax", "cx", "dx", "bx", "bp", "si", "di", "ds", "es"} : s[r] = 0
           /\ s.eflags = 0 /\ s.exitCode = 0 /\ ~s.shouldExit

\* a header with four different initial values
C23_Witness ==
    /\ BeforeFirstDecode
    /\ s.cs = 2314 /\ s.ip = 1800 /\ s.ss = 772 /\ s.sp = 1286

(***************************************************************************)
(* C24                                                                     *)
(***************************************************************************)
\* the 8-bit register r of a state, and the other half of its 16-bit register
ByteReg(st, r) == IF r < 4 THEN Reg16(st, r) % W8 ELSE Reg16(st, r - 4) \div W8
OtherHalf(st, r) == IF r < 4 THEN Reg16(st, r) \div W8 ELSE Reg16(st, r - 4) % W8

\* the iteration ran mov r8,imm8, mov r8,[DI+disp8] or sub r8,r8
WritesByteReg(e) ==
    /\ Completed(e)
    /\ e.inst.t \in {"instMovReg8Imm8", "instMovReg8MemDisp8", "instSubReg8Reg8"}

\* the byte the instruction writes to its destination
WrittenByte(e) ==
    CASE e.inst.t = "instMovReg8Imm8" -> e.inst.b
      [] e.inst.t = "instMovReg8MemDisp8" ->
            MemAt(e.prem, Wrap16(realAddress(e.pre.ds, e.pre.di) + e.inst.c))
      [] OTHER -> (ByteReg(e.pre, e.inst.a) - ByteReg(e.pre, e.inst.b)) % W8

\* C24: writing a byte b to any of AL, CL, DL, BL, AH, CH, DH, BH through
\* mov r8,imm8, mov r8,[DI+disp8] or sub r8,r8 makes a following read of that
\* register return b and leaves the other half of the containing 16-bit
\* register unchanged.
C24_ByteRegisterWrite ==
    (HLen > 0 /\ WritesByteReg(Last))
        => /\ ByteReg(s, Last.inst.a) = WrittenByte(Last)
           /\ OtherHalf(s, Last.inst.a) = OtherHalf(Last.pre, Last.inst.a)
           /\ \A r \in 0..7 : (r % 4) # (Last.inst.a % 4) => ByteReg(s, r) = ByteReg(Last.pre, r)

(***************************************************************************)
(* C25                                                                     *)
(***************************************************************************)
\* a flags word with one bit set, and with one bit cleared
WithBit(e, bit) == (e \div (2 * bit)) * (2 * bit) + bit + (e % bit)
WithoutBit(e, bit) == (e \div (2 * bit)) * (2 * bit) + (e % bit)

\* setting or clearing ZF, CF or DF in the current state changes that bit only
FlagWritesCompose ==
    \A bit \in {EFLAGS_ZF, EFLAGS_CF, EFLAGS_DF} :
        /\ setFlag(s, bit).eflags = WithBit(s.eflags, bit)
        /\ resetFlag(s, bit).eflags = WithoutBit(s.eflags, bit)

CmpKinds == {"instCmpMem8Imm8", "instCmpMem16Imm8", "instCmpReg8Imm8", "instCmpReg16Reg16"}

\* the flags word after the iteration, by kind of instruction (an int 0x21
\* that ran a caller's handler is the caller's code, not an instruction kind)
FlagsFrame(e) ==
    CASE e.inst.t \in CmpKinds ->
            WithoutBit(WithoutBit(s.eflags, EFLAGS_ZF), EFLAGS_CF)
                = WithoutBit(WithoutBit(e.pre.eflags, EFLAGS_ZF), EFLAGS_CF)
      [] e.inst.t = "instRepeScasb" ->
            WithoutBit(s.eflags, EFLAGS_ZF) = WithoutBit(e.pre.eflags, EFLAGS_ZF)
      [] e.inst.t = "instCld" -> s.eflags = WithoutBit(e.pre.eflags, EFLAGS_DF)
      [] e.inst.t = "instInt" /\ e.h \in {"custom", "customSetDF"} -> TRUE
      [] OTHER -> s.eflags = e.pre.eflags

\* C25: setting or clearing one of ZF, CF, DF changes exactly that bit of the
\* flags word; every instruction other than cmp, cld and scasb (sti and
\* add/sub/shl/shr/and/xor/inc/dec included) leaves the whole flags word
\* unchanged; cmp changes at most ZF and CF, scasb at most ZF, and cld clears
\* DF and nothing else.
C25_FlagsFrame ==
    /\ FlagWritesCompose
    /\ (HLen > 0 /\ Completed(Last)) => FlagsFrame(Last)

\* cld executed with ZF and DF set
C25_Witness ==
    /\ HLen > 0 /\ Completed(Last) /\ Last.inst.t = "instCld"
    /\ Last.pre.eflags = EFLAGS_ZF + EFLAGS_DF
    /\ s.eflags = EFLAGS_ZF

(***************************************************************************)
(* C26                                                                     *)
(***************************************************************************)
\* the iteration decoded pop r16 with the word at SS:SP not entirely inside
\* the buffer
PopOutside(e) ==
    /\ e.derr = "" /\ e.inst.t = "instPop"
    /\ Linear(e.pre.ss, e.pre.sp) + 1 >= memorySize

\* C26: pop r16 executed when the word at SS:SP is not entirely inside the
\* memory buffer halts the run with a memory-bounds error; it never completes
\* with the destination register overwritten and SP left unchanged.
C26_PopOutsideFails ==
    (HLen > 0 /\ PopOutside(Last))
        => /\ ~Completed(Last) /\ Last.err # ""
           /\ pc = "error" /\ ret.err # ""

(***************************************************************************)
(* C27                                                                     *)
(***************************************************************************)
\* DI after k string steps from the state st
DIAfter(st, k) == Wrap16(st.di + (IF DFOf(st) = 0 THEN k ELSE -k))

\* the byte the i-th step (from 0) of a scan from st reads
ScannedByte(e, i) == MemAt(e.prem, realAddress(e.pre.es, DIAfter(e.pre, i)))

\* rep movsb / rep stosb performed exactly CX steps
RepRunsCXSteps(e) ==
    /\ s.cx = 0
    /\ s.di = DIAfter(e.pre, e.pre.cx)
    /\ e.inst.t = "instRepMovsb" =>
          s.si = Wrap16(e.pre.si + (IF DFOf(e.pre) = 0 THEN e.pre.cx ELSE -e.pre.cx))

\* repe scasb performed k = CX - CX' steps: none when ZF=0 on entry, every
\* step but the last left ZF=1, and the last one cleared ZF or used up CX
RepeStopsAtMismatch(e) ==
    LET k == e.pre.cx - s.cx
    IN  /\ k \in 0..e.pre.cx
        /\ s.di = DIAfter(e.pre, k)
        /\ ZFOf(e.pre) = 0 => k = 0
        /\ (ZFOf(e.pre) = 1 /\ e.pre.cx > 0) => k >= 1
        /\ \A i \in 0..(k - 2) : ScannedByte(e, i) = al(e.pre)
        /\ k >= 1 => /\ ZFOf(s) = (IF ScannedByte(e, k - 1) = al(e.pre) THEN 1 ELSE 0)
                     /\ ZFOf(s) = 1 => s.cx = 0

\* C27: every rep-prefixed instruction terminates after at most (initial CX)
\* steps: rep movsb/stosb perform exactly CX steps and leave CX=0; repe scasb
\* performs a step only while CX>0 and ZF=1 (zero steps if ZF=0 on entry),
\* stops after the first step that clears ZF, and leaves CX = initial CX minus
\* the number of steps performed.
C27_RepTerminates ==
    (HLen > 0 /\ Last.derr = ""
       /\ Last.inst.t \in {"instRepMovsb", "instRepStosb", "instRepeScasb"})
        => /\ ~Last.hang /\ pc # "hang"
           /\ Completed(Last) =>
                 IF Last.inst.t = "instRepeScasb"
                 THEN RepeStopsAtMismatch(Last) ELSE RepRunsCXSteps(Last)

\* repe scasb entered with CX=4 and ZF=1 stopped at the third byte
C27_Witness ==
    /\ HLen > 0 /\ Completed(Last) /\ Last.inst.t = "instRepeScasb"
    /\ Last.pre.cx = 4 /\ ZFOf(Last.pre) = 1 /\ DFOf(Last.pre) = 0
    /\ s.cx = 1 /\ ZFOf(s) = 0 /\ s.di = 51

(***************************************************************************)
(* C28                                                                     *)
(***************************************************************************)
\* the iteration completed an instruction that carried the ES override
EsOverridden(e) == Completed(e) /\ e.so = "ES"

\* the memory operand of the instruction was the one at the address formed
\* from ES (what was written there, or what was read from there)
ResolvedThroughES(e) ==
    LET ea(off) == realAddress(e.pre.es, off)
    IN  CASE e.inst.t = "instMovMem16Reg16" ->
                WordAt(mem, ea(e.inst.a)) = Reg16(e.pre, e.inst.b)
          [] e.inst.t = "instMovMem8Reg8" ->
                MemAt(mem, ea(e.inst.a)) = ByteReg(e.pre, e.inst.b)
          [] e.inst.t = "instMovMem16Sreg" ->
                WordAt(mem, ea(e.inst.a)) = readWordSreg(e.pre, e.inst.b)
          [] e.inst.t = "instMovReg16Mem16" ->
                Reg16(s, e.inst.a) = WordAt(e.prem, ea(e.inst.b))
          [] e.inst.t = "instCmpMem16Imm8" ->
                (ZFOf(s) = 1) <=> (WordAt(e.prem, ea(e.inst.a)) = Wrap16(e.inst.b))
          [] e.inst.t = "instCmpMem8Imm8" ->
                (ZFOf(s) = 1) <=> (MemAt(e.prem, ea(e.inst.a)) = Wrap8(e.inst.b))
          [] e.inst.t = "instAndMem8Reg8" ->
                MemAt(mem, ea(e.inst.a))
                    = BitAnd(MemAt(e.prem, ea(e.inst.a)), ByteReg(e.pre, e.inst.b))
          [] e.inst.t = "instMovReg8MemDisp8" ->
                ByteReg(s, e.inst.a) = MemAt(e.prem, Wrap16(ea(e.pre.di) + e.inst.c))
          [] OTHER -> TRUE

\* C28: when an instruction carries the ES override, every memory operand of
\* it that defaults to DS is resolved through ES: for mov with a disp16
\* operand and equally for cmp word [disp16],imm8, cmp byte [disp16],imm8,
\* and [disp16],r8 and mov r8,[DI+disp8]; DS is the same afterwards.
C28_OverrideAllForms ==
    (HLen > 0 /\ EsOverridden(Last))
        => ResolvedThroughES(Last) /\ s.ds = Last.pre.ds

(***************************************************************************)
(* C29                                                                     *)
(***************************************************************************)
\* the iteration fetched jb (72), je (74) or jne (75) with its rel8 byte
FetchedJcc(e) ==
    /\ FetchAddr(e) + 1 < memorySize
    /\ MemAt(e.prem, FetchAddr(e)) \in {114, 116, 117}

\* the rel8 byte as a signed value: 0x7F is +127, 0xFF is -1
SignedRel8(e) ==
    LET b == MemAt(e.prem, FetchAddr(e) + 1) IN IF b < 128 THEN b ELSE b - 256

\* the guard of the jump in the flags before it
JccGuard(e) ==
    CASE MemAt(e.prem, FetchAddr(e)) = 114 -> CFOf(e.pre) = 1
      [] MemAt(e.prem, FetchAddr(e)) = 116 -> ZFOf(e.pre) = 1
      [] OTHER                             -> ZFOf(e.pre) = 0

\* C29: for jb, je and jne rel8 whose following instruction is at offset N,
\* afterwards IP = N + signExtend(rel8) (mod 2^16) if the guard holds (jb:
\* CF=1, je: ZF=1, jne: ZF=0) and IP = N otherwise; flags, other registers
\* and memory are unchanged.
C29_ConditionalJumps ==
    (HLen > 0 /\ FetchedJcc(Last))
        => LET N == (Last.pre.ip + 2) % W16
           IN  /\ Completed(Last) /\ pc = "running"
               /\ s = [Last.pre EXCEPT !.ip = IF JccGuard(Last)
                                              THEN (N + SignedRel8(Last)) % W16 ELSE N]
               /\ mem = Last.prem

\* jne taken backwards by one byte (rel8 = 0xFF) with ZF=0
C29_Witness ==
    /\ HLen > 0 /\ FetchedJcc(Last) /\ MemAt(Last.prem, FetchAddr(Last)) = 117
    /\ MemAt(Last.prem, FetchAddr(Last) + 1) = 255 /\ ZFOf(Last.pre) = 0
    /\ s.ip = Last.pre.ip + 1

(***************************************************************************)
(* C30                                                                     *)
(***************************************************************************)
\* first bytes of the opcode map that are followed by a ModR/M byte: 03, 20,
\* 2A, 2B, 33, 3B, 80, 81, 83, 88-8E, C1, C7, D1, FF
ModRMCarriers == {3, 32, 42, 43, 51, 59, 128, 129, 131} \cup (136..142) \cup {193, 199, 209, 255}

\* the (mod, rm) combinations of a ModR/M byte that the core supports
SupportedModRM(b) ==
    LET mod == b \div 64
        rm  == b % 8
    IN  mod = 3 \/ (mod = 0 /\ rm = 6) \/ (mod = 1 /\ rm \in 4..7)

\* the iteration fetched an opcode with a ModR/M byte inside the buffer
FetchedModRM(e) ==
    /\ FetchAddr(e) + 1 < memorySize
    /\ MemAt(e.prem, FetchAddr(e)) \in ModRMCarriers

\* C30: for every opcode that carries a ModR/M byte, a (mod, rm) combination
\* other than mod=00 with rm=110, mod=01 with rm in {100,101,110,111}, and
\* mod=11 yields a decode error; mod=00 with rm different from 110 is never
\* decoded as a disp16 memory operand.
C30_ModRMCombinations ==
    (HLen > 0 /\ FetchedModRM(Last)
       /\ ~SupportedModRM(MemAt(Last.prem, FetchAddr(Last) + 1)))
        => /\ Last.derr # "" /\ Last.inst = NoInst
           /\ pc = "error" /\ ret.err = Last.derr

(***************************************************************************)
(* C31                                                                     *)
(***************************************************************************)
\* the buffer ends inside the instruction the iteration fetched: its first
\* byte is inside the buffer, one of its later bytes is not
EndsInsideInstruction(e) ==
    /\ FetchAddr(e) < memorySize
    /\ EncodedLength(e.prem, FetchAddr(e)) > 0
    /\ FetchAddr(e) + EncodedLength(e.prem, FetchAddr(e)) > memorySize

\* C31: if the memory buffer ends inside an instruction (after the opcode but
\* before its ModR/M byte, displacement or immediate is complete), decoding
\* returns an error and the run halts with it; no instruction is executed
\* with a missing byte taken as 0.
C31_TruncatedInstruction ==
    (HLen > 0 /\ EndsInsideInstruction(Last))
        => /\ Last.derr # "" /\ Last.inst = NoInst
           /\ pc = "error" /\ ret.err = Last.derr

(***************************************************************************)
(* C32                                                                     *)
(***************************************************************************)
\* the iteration fetched 20 /r with mod=00, rm=110 and no segment override,
\* and its operand DS:disp16 is inside the buffer
FetchedAndMem8(e) ==
    /\ e.so = ""
    /\ MemAt(e.prem, FetchAddr(e)) = 32
    /\ MemAt(e.prem, FetchAddr(e) + 1) \div 64 = 0
    /\ MemAt(e.prem, FetchAddr(e) + 1) % 8 = 6
    /\ FetchAddr(e) + 3 < memorySize
    /\ realAddress(e.pre.ds, WordAt(e.prem, FetchAddr(e) + 2)) < memorySize

\* C32: and byte [disp16],r8 (20 /r with mod=00, rm=110) stores (old memory
\* byte AND r8) into the byte at DS:disp16 and leaves register r8 and every
\* other register unchanged.
C32_AndMemoryDestination ==
    (HLen > 0 /\ FetchedAndMem8(Last))
        => LET p  == Last.pre
               r  == (MemAt(Last.prem, FetchAddr(Last) + 1) \div 8) % 8
               at == realAddress(p.ds, WordAt(Last.prem, FetchAddr(Last) + 2))
           IN  /\ Completed(Last)
               /\ MemAt(mem, at) = BitAnd(MemAt(Last.prem, at), ByteReg(p, r))
               /\ SameOutside(mem, Last.prem, {at})
               /\ s = [p EXCEPT !.ip = (p.ip + 4) % W16]

(***************************************************************************)
(* C33                                                                     *)
(***************************************************************************)
\* opcodes of the opcode map whose ModR/M byte can name a memory operand
MemoryOperandOpcodes ==
    {3, 32, 42, 43, 51, 59, 128, 129, 131} \cup (136..142) \cup {193, 199, 209, 255}

\* base register of a [base + disp8] operand: rm = 100, 101, 110, 111
Disp8Base(rm) == CASE rm = 4 -> SI [] rm = 5 -> DI [] rm = 6 -> BP [] OTHER -> BX

\* the iteration fetched, without a prefix, an opcode with a ModR/M byte of
\* mod=01 and rm in {100,101,110,111}; the five bytes from the opcode on are
\* inside the buffer
FetchedBaseDisp8(e) ==
    /\ e.so = ""
    /\ FetchAddr(e) + 4 < memorySize
    /\ MemAt(e.prem, FetchAddr(e)) \in MemoryOperandOpcodes
    /\ MemAt(e.prem, FetchAddr(e) + 1) \div 64 = 1
    /\ MemAt(e.prem, FetchAddr(e) + 1) % 8 \in 4..7

\* address of the operand [base + disp8] of the fetched instruction: through
\* SS when the base is BP, through DS otherwise
BaseDisp8Address(e) ==
    LET rm   == MemAt(e.prem, FetchAddr(e) + 1) % 8
        off  == Wrap16(Reg16(e.pre, Disp8Base(rm)) + ToInt8(MemAt(e.prem, FetchAddr(e) + 2)))
    IN  realAddress(IF rm = 6 THEN e.pre.ss ELSE e.pre.ds, off)

\* C33: for every ModR/M opcode that accepts a memory operand, mod=01 with
\* rm=100, 101, 110, 111 decodes to a [base + disp8] operand with base SI,
\* DI, BP, BX respectively and disp8 the sign-extended byte after ModR/M; at
\* execution the operand is addressed through SS when the base is BP and
\* through DS otherwise (mov r8,r/m8 and mov r16,r/m16 load from there).
C33_BaseDisp8Operand ==
    (HLen > 0 /\ FetchedBaseDisp8(Last))
        => LET op  == MemAt(Last.prem, FetchAddr(Last))
               reg == (MemAt(Last.prem, FetchAddr(Last) + 1) \div 8) % 8
               at  == BaseDisp8Address(Last)
           IN  /\ Last.derr = ""
               /\ (op = 138 /\ at < memorySize)
                    => Completed(Last) /\ ByteReg(s, reg) = MemAt(Last.prem, at)
               /\ (op = 139 /\ at + 1 < memorySize)
                    => Completed(Last) /\ Reg16(s, reg) = WordAt(Last.prem, at)

(***************************************************************************)
(* C34                                                                     *)
(***************************************************************************)
\* the /digit values the opcode map lists for the group opcodes 80, 81, 83,
\* C1, C7, D1, FF
ListedDigits(op) ==
    CASE op = 128 -> {4, 7}
      [] op = 129 -> {5, 7}
      [] op = 131 -> {0, 5, 7}
      [] op = 193 -> {4}
      [] op = 199 -> {0}
      [] op = 209 -> {4, 5}
      [] op = 255 -> {2}
      [] OTHER    -> 0..7

\* the bytes at address a are a well-formed encoding of a form of the opcode
\* map: a listed opcode, a listed /digit, a supported (mod, rm) combination
\* (a memory one for lea and call m16), a segment register ES..GS for 8C/8E, a
\* listed string operation after F3, a listed form after the ES prefix
RECURSIVE ListedForm(_, _)
ListedForm(m, a) ==
    LET op    == MemAt(m, a)
        modrm == MemAt(m, a + 1)
        mod   == modrm \div 64
        reg   == (modrm \div 8) % 8
    IN  CASE op = 38  -> MemAt(m, a + 1) # 38 /\ ListedForm(m, a + 1)
          [] op = 243 -> MemAt(m, a + 1) \in {164, 170, 174, 175}
          [] op \in ModRMCarriers ->
                /\ SupportedModRM(modrm)
                /\ reg \in ListedDigits(op)
                /\ op \in {141, 255} => mod # 3
                /\ op \in {140, 142} => reg <= GS
          [] OTHER -> op \in OpcodeMap

\* the iteration fetched a well-formed listed form that lies inside the buffer
FetchedListedForm(e) ==
    /\ FetchAddr(e) + 6 < memorySize
    /\ ListedForm(e.prem, FetchAddr(e))

\* C34: every opcode form listed in the opcode map decodes successfully when
\* well-formed and executes (it is handed to the executor and the executor
\* knows it): this includes 1E/1F (push/pop ds), 73 (jae), 81 /5 and /7, C7
\* /0, EB (jmp rel8), F3 AF (repe scasw) and FF /2 (call m16).
C34_ListedFormsDecode ==
    (HLen > 0 /\ FetchedListedForm(Last))
        => /\ Last.derr = "" /\ Last.inst # NoInst
           /\ Last.err # "unknown inst"

(***************************************************************************)
(* C35                                                                     *)
(***************************************************************************)
\* the relative displacement the executed instruction adds to IP, taken from
\* the bytes it was decoded from (0 when it adds none)
RelativeDelta(e) ==
    LET a  == Wrap16(FetchAddr(e) + e.n)
        t  == e.inst.t
    IN  CASE t \in {"instJmpRel16", "instCall"} ->
               ToInt16(MemAt(e.prem, Wrap16(a - 2)) + W8 * MemAt(e.prem, Wrap16(a - 1)))
          [] t = "instJb"      -> IF CFOf(e.pre) = 1 THEN ToInt8(MemAt(e.prem, Wrap16(a - 1))) ELSE 0
          [] t = "instJeRel8"  -> IF ZFOf(e.pre) = 1 THEN ToInt8(MemAt(e.prem, Wrap16(a - 1))) ELSE 0
          [] t = "instJneRel8" -> IF ZFOf(e.pre) = 0 THEN ToInt8(MemAt(e.prem, Wrap16(a - 1))) ELSE 0
          [] OTHER -> 0

\* C35: IP arithmetic wraps modulo 2^16: advancing IP by the decoded byte
\* count and adding a relative displacement (jmp rel16, call rel16,
\* conditional jumps, negative displacements included) each produce
\* (IP + delta) mod 65536, and CS is not changed by the wrap.
C35_IPWraps ==
    (HLen > 0 /\ Completed(Last) /\ Last.inst.t # "instRet")
        => /\ s.ip = (Last.pre.ip + Last.n + RelativeDelta(Last)) % W16
           /\ s.ip \in 0..(W16 - 1)
           /\ s.cs = Last.pre.cs

\* inc bx at IP=0xFFFF advanced IP to 0, and jmp -16 fetched there carried
\* it back to 0xFFF3
C35_Witness ==
    /\ HLen = 2 /\ Completed(Back(1)) /\ Completed(Last)
    /\ Back(1).pre.ip = W16 - 1 /\ Back(1).inst.t = "instInc"
    /\ Last.pre.ip = 0 /\ Last.inst.t = "instJmpRel16"
    /\ s.ip = W16 - 13 /\ s.cs = 0

(***************************************************************************)
(* C36                                                                     *)
(***************************************************************************)
\* the iteration decoded lea r16,[DI+disp8] from bytes inside the buffer
FetchedLeaDisp8(e) ==
    /\ e.derr = "" /\ e.inst.t = "instLeaReg16Disp8"
    /\ FetchAddr(e) + e.n <= memorySize

\* C36: lea r16,[DI+disp8] stores into r16 the 16-bit offset DI +
\* signExtend(disp8) (mod 2^16); the stored value does not depend on the
\* value of DS or of any other segment register, and no memory is read or
\* written (nothing else changes, whatever the buffer holds).
C36_LeaOffset ==
    (HLen > 0 /\ FetchedLeaDisp8(Last))
        => LET p    == Last.pre
               a    == FetchAddr(Last) + Last.n
               reg  == (MemAt(Last.prem, a - 2) \div 8) % 8
               off  == Wrap16(p.di + ToInt8(MemAt(Last.prem, a - 1)))
           IN  /\ Completed(Last)
               /\ Reg16(s, reg) = off
               /\ s = [[p EXCEPT !.ip = Wrap16(p.ip + Last.n)]
                          EXCEPT ![RegWName[reg + 1]] = off]
               /\ mem = Last.prem

(***************************************************************************)
(* C37                                                                     *)
(***************************************************************************)
\* the run uses only the default interrupt handlers
DefaultHandlersOnly == customIntHandlers = NoCustom

\* the flags words with no bit other than ZF and CF
ZFCFOnly == {z * EFLAGS_ZF + c * EFLAGS_CF : z \in 0..1, c \in 0..1}

\* number of string steps a completed string instruction made
StringSteps(e) ==
    IF e.inst.t = "instStosb" THEN 1 ELSE e.pre.cx - s.cx

\* C37: in every reachable state of a run that uses only the default
\* interrupt handlers, the flags word has no bit set other than ZF (bit 6)
\* and CF (bit 0); in particular DF is never 1, so every string step (stosb,
\* movsb, scasb) moves SI/DI upward by 1.
C37_FlagsStayZFCF ==
    DefaultHandlersOnly
        => /\ s.eflags \in ZFCFOnly /\ ret.state.eflags \in ZFCFOnly
           /\ (HLen > 0 /\ Completed(Last)
                 /\ Last.inst.t \in {"instStosb", "instRepStosb", "instRepMovsb",
                                     "instRepeScasb"})
                => /\ s.di = Wrap16(Last.pre.di + StringSteps(Last))
                   /\ s.si = IF Last.inst.t = "instRepMovsb"
                             THEN Wrap16(Last.pre.si + StringSteps(Last))
                             ELSE Last.pre.si

\* rep stosb of 40 bytes entered with ZF set moved DI up by 40
C37_Witness ==
    /\ DefaultHandlersOnly /\ HLen > 0 /\ Completed(Last)
    /\ Last.inst.t = "instRepStosb" /\ Last.pre.cx = 40
    /\ s.eflags = EFLAGS_ZF /\ s.di = Last.pre.di + 40

(***************************************************************************)
(* C38                                                                     *)
(***************************************************************************)
\* C38: the default INT 21h/09h handler always returns: scanning from DS:DX
\* it either reaches a '$' byte or fails with a memory-bounds error once the
\* scan address passes the end of the buffer; it never scans indefinitely,
\* whatever the buffer size and contents.
C38_PrintReturns ==
    (HLen > 0 /\ IsPrint(Last))
        => /\ ~Last.hang /\ pc # "hang"
           /\ Completed(Last) \/ (Last.merr /\ pc = "error")

(***************************************************************************)
(* C39                                                                     *)
(***************************************************************************)
\* the iteration decoded an instruction and its execution returned an error
ExecutionFailed(e) == e.derr = "" /\ e.err # ""

\* the three kinds of execution error: a memory-bounds error, an error of
\* the interrupt dispatch, a write to a segment register other than ES/SS/DS
ExpectedFailure(e) ==
    \/ e.merr
    \/ e.inst.t = "instInt"
    \/ e.inst.t = "instMovSRegReg" /\ e.inst.a \notin {ES, SS, DS}

\* C39: every instruction value the decoder can return is handled by the
\* executor for all its operand values: executing a decoded instruction
\* fails only with a memory-bounds error, an interrupt-dispatch error or a
\* write to a segment register other than ES/SS/DS, and never with an
\* 'unknown register' or 'unknown inst' error (lea bx,[disp16] and
\* and ah,imm8 execute).
C39_ExecutorTotal ==
    (HLen > 0 /\ ExecutionFailed(Last))
        => /\ ExpectedFailure(Last)
           /\ pc = "error"

(***************************************************************************)
(* C40                                                                     *)
(***************************************************************************)
\* the eight bytes of a buffer from index base on, as a buffer of their own
CodeAt(m, base) ==
    [a \in {x - base : x \in {y \in DOMAIN m : y >= base /\ y < base + 8}} |-> m[a + base]]

\* what the decoder makes of the bytes at the linear address CS*16 + IP of
\* the buffer an iteration started from
DecodedAtLinear(e) ==
    decodeInstWithMemory(0, CodeAt(e.prem, Linear(e.pre.cs, e.pre.ip)))

\* C40: at the start of execution memory[i] = loadModule[i] for every
\* i < len(loadModule) and memory[i] = 0 for every other index below
\* memorySize (the image is placed at linear address 0, independent of
\* initCS), and every instruction is fetched from linear address (CS*16 + IP)
\* of that same buffer, so a memory write to that address changes the
\* instruction decoded there next.
C40_ImageAndFetch ==
    /\ (pc = "running" /\ HLen = 0)
         => /\ loadModule.len <= memorySize
            /\ \A i \in DOMAIN mem \cup DOMAIN loadModule.b :
                  MemAt(mem, i) = IF i < loadModule.len THEN ByteAt(loadModule, i) ELSE 0
    /\ (HLen > 0 /\ Linear(Last.pre.cs, Last.pre.ip) + 8 <= memorySize)
         => LET d == DecodedAtLinear(Last)
            IN  /\ Last.inst = d.inst /\ Last.n = d.n
                /\ Last.so = d.so /\ Last.derr = d.err

====
